---- MODULE Spec2Model ----
(***************************************************************************)
(* Model of qtpyvcp/tools/plasma_gcode_preprocessor.py: the three passes   *)
(* of the plasma G-code preprocessor (PreProcessor.parse, flag_holes,      *)
(* dump_parsed) with the line classifier (CodeLine), the hole generator    *)
(* (HoleBuilder) and the HiDef table (HiDefHole).                          *)
(*                                                                         *)
(* Text is a sequence of one-character strings, so that the regular        *)
(* expressions of the classifier are modelled by what they match.          *)
(* Lengths are integers in thousandths of a program unit (1.0 = 1000), and *)
(* Python's None is the empty sequence, a value v being <<v>>.             *)
(***************************************************************************)
EXTENDS Integers, Sequences, FiniteSets, TLC

None == <<>>
Some(v) == <<v>>
IsNone(o) == o = <<>>
Val(o) == o[1]

(***************************************************************************)
(* Characters and strings                                                  *)
(***************************************************************************)
LowerCase ==
  <<"a","b","c","d","e","f","g","h","i","j","k","l","m",
    "n","o","p","q","r","s","t","u","v","w","x","y","z">>
UpperCase ==
  <<"A","B","C","D","E","F","G","H","I","J","K","L","M",
    "N","O","P","Q","R","S","T","U","V","W","X","Y","Z">>
DigitChars == <<"0","1","2","3","4","5","6","7","8","9">>

IsDigit(c) == \E k \in 1..10 : DigitChars[k] = c
DigitVal(c) == (CHOOSE k \in 1..10 : DigitChars[k] = c) - 1
IsSpace(c) == c \in {" ", "\t", "\n", "\r"}
IsNumChar(c) == IsDigit(c) \/ c \in {"+", ".", "-"}

\* str.upper() on one character
upper_char(c) ==
  IF \E k \in 1..26 : LowerCase[k] = c
  THEN UpperCase[CHOOSE k \in 1..26 : LowerCase[k] = c]
  ELSE c

\* str.upper()
upper(s) == [k \in 1..Len(s) |-> upper_char(s[k])]

RECURSIVE lstrip(_)
lstrip(s) == IF s # <<>> /\ IsSpace(Head(s)) THEN lstrip(Tail(s)) ELSE s

RECURSIVE rstrip(_)
rstrip(s) ==
  IF s # <<>> /\ IsSpace(s[Len(s)]) THEN rstrip(SubSeq(s, 1, Len(s) - 1)) ELSE s

\* str.strip()
strip(s) == rstrip(lstrip(s))

Drop(s, n) == SubSeq(s, n + 1, Len(s))

\* str.startswith(p)
startswith(s, p) == Len(p) <= Len(s) /\ SubSeq(s, 1, Len(p)) = p

\* str.find(sub) + 1: position of the first occurrence of sub in s, 0 if none
find(s, sub) ==
  LET At == {k \in 1..(Len(s) - Len(sub) + 1) : SubSeq(s, k, k + Len(sub) - 1) = sub}
  IN IF At = {} THEN 0 ELSE CHOOSE k \in At : \A m \in At : k <= m

\* position of the first character of s that is in cs, 0 if none
find_char(s, cs) ==
  LET At == {k \in 1..Len(s) : s[k] \in cs}
  IN IF At = {} THEN 0 ELSE CHOOSE k \in At : \A m \in At : k <= m

\* re.split(";|\(", line, 1): the list of one or two pieces
split_comment(s) ==
  LET p == find_char(s, {";", "("})
  IN IF p = 0 THEN <<s>> ELSE <<SubSeq(s, 1, p - 1), Drop(s, p)>>

\* CodeLine.strip_inline_comment
strip_inline_comment(line) == strip(split_comment(line)[1])

RECURSIVE SpanDigits(_, _)
SpanDigits(s, p) ==
  IF p <= Len(s) /\ IsDigit(s[p]) THEN 1 + SpanDigits(s, p + 1) ELSE 0

RECURSIVE SpanSpaces(_, _)
SpanSpaces(s, p) ==
  IF p <= Len(s) /\ IsSpace(s[p]) THEN 1 + SpanSpaces(s, p + 1) ELSE 0

RECURSIVE SpanNum(_, _)
SpanNum(s, p) ==
  IF p <= Len(s) /\ IsNumChar(s[p]) THEN 1 + SpanNum(s, p + 1) ELSE 0

\* re.findall(r"G\d+|T\s*\d+|M\d+", s) from position p
RECURSIVE findall_codes(_, _)
findall_codes(s, p) ==
  IF p > Len(s) THEN <<>>
  ELSE IF s[p] \in {"G", "M"} /\ SpanDigits(s, p + 1) > 0
  THEN LET n == SpanDigits(s, p + 1)
       IN <<SubSeq(s, p, p + n)>> \o findall_codes(s, p + n + 1)
  ELSE IF s[p] = "T" /\ SpanDigits(s, p + 1 + SpanSpaces(s, p + 1)) > 0
  THEN LET w == SpanSpaces(s, p + 1)
           n == SpanDigits(s, p + 1 + w)
       IN <<SubSeq(s, p, p + w + n)>> \o findall_codes(s, p + w + n + 1)
  ELSE findall_codes(s, p + 1)

\* re.findall(r"T\s*\d+|M6", s) from position p
RECURSIVE findall_tool_m6(_, _)
findall_tool_m6(s, p) ==
  IF p > Len(s) THEN <<>>
  ELSE IF s[p] = "T" /\ SpanDigits(s, p + 1 + SpanSpaces(s, p + 1)) > 0
  THEN LET w == SpanSpaces(s, p + 1)
           n == SpanDigits(s, p + 1 + w)
       IN <<SubSeq(s, p, p + w + n)>> \o findall_tool_m6(s, p + w + n + 1)
  ELSE IF s[p] = "M" /\ p < Len(s) /\ s[p + 1] = "6"
  THEN <<SubSeq(s, p, p + 1)>> \o findall_tool_m6(s, p + 2)
  ELSE findall_tool_m6(s, p + 1)

\* re.finditer(r"X[\d\+\.-]*|Y[\d\+\.-]*|...", s) from position p, each match
\* split by re.findall(r"X|Y|...|[\d\+\.-]+") into its letter and its number text
RECURSIVE finditer_words(_, _, _)
finditer_words(s, p, letters) ==
  IF p > Len(s) THEN <<>>
  ELSE IF s[p] \in letters
  THEN LET n == SpanNum(s, p + 1)
       IN <<[letter |-> s[p], num |-> SubSeq(s, p + 1, p + n)]>>
          \o finditer_words(s, p + n + 1, letters)
  ELSE finditer_words(s, p + 1, letters)

\* re.search("^" + k + "{1}", s): an anchored prefix match in which the
\* character "." of the pattern is the regular expression's wildcard
re_search_prefix(k, s) ==
  /\ Len(k) <= Len(s)
  /\ \A n \in 1..Len(k) : k[n] = "." \/ k[n] = s[n]

(***************************************************************************)
(* Numbers: float(), int(), and the text Python prints for them            *)
(***************************************************************************)
RECURSIVE DigitsVal(_)
DigitsVal(ds) ==
  IF ds = <<>> THEN 0 ELSE 10 * DigitsVal(SubSeq(ds, 1, Len(ds) - 1)) + DigitVal(ds[Len(ds)])

\* thousandths per unit
Scale == 10 * 10 * 10

\* the first three decimals of a fraction text, as thousandths
FracVal(fs) ==
  LET d(k) == IF k <= Len(fs) THEN DigitVal(fs[k]) ELSE 0
  IN 100 * d(1) + 10 * d(2) + d(3)

\* float(text) for a text over the characters 0-9 + - . : None when Python
\* raises ValueError, else the value in thousandths
float_of(text) ==
  LET t == strip(text)
      signed == t # <<>> /\ t[1] \in {"+", "-"}
      body == IF signed THEN Tail(t) ELSE t
      dot == find_char(body, {"."})
      ip == IF dot = 0 THEN body ELSE SubSeq(body, 1, dot - 1)
      fp == IF dot = 0 THEN <<>> ELSE Drop(body, dot)
      ok == /\ \A k \in 1..Len(ip) : IsDigit(ip[k])
            /\ \A k \in 1..Len(fp) : IsDigit(fp[k])
            /\ Len(ip) + Len(fp) > 0
      mag == Scale * DigitsVal(ip) + FracVal(fp)
  IN IF ~ok THEN None
     ELSE Some(IF signed /\ t[1] = "-" THEN 0 - mag ELSE mag)

\* int(text): None when Python raises ValueError
int_of(text) ==
  LET t == strip(text)
      signed == t # <<>> /\ t[1] \in {"+", "-"}
      body == IF signed THEN Tail(t) ELSE t
      ok == body # <<>> /\ \A k \in 1..Len(body) : IsDigit(body[k])
  IN IF ~ok THEN None
     ELSE Some(IF signed /\ t[1] = "-" THEN 0 - DigitsVal(body) ELSE DigitsVal(body))

\* str(n) of a non-negative int
RECURSIVE NatStr(_)
NatStr(n) ==
  IF n < 10 THEN <<DigitChars[n + 1]>> ELSE NatStr(n \div 10) \o <<DigitChars[(n % 10) + 1]>>

\* str(n) of an int
int_str(n) == IF n < 0 THEN <<"-">> \o NatStr(0 - n) ELSE NatStr(n)

\* the decimals of a float's text: thousandths without trailing zeros, at least one digit
frac_str(m) ==
  IF m % 100 = 0 THEN NatStr(m \div 100)
  ELSE IF m % 10 = 0 THEN <<DigitChars[(m \div 100) + 1], DigitChars[((m \div 10) % 10) + 1]>>
  ELSE <<DigitChars[(m \div 100) + 1], DigitChars[((m \div 10) % 10) + 1], DigitChars[(m % 10) + 1]>>

\* str(x) of a float given in thousandths: 5000 is "5.0", -1500 is "-1.5"
float_str(v) ==
  LET mag == IF v < 0 THEN 0 - v ELSE v
  IN (IF v < 0 THEN <<"-">> ELSE <<>>) \o NatStr(mag \div Scale) \o <<".">> \o frac_str(mag % Scale)

(***************************************************************************)
(* Static tables                                                           *)
(***************************************************************************)
G_MODAL_GROUPS ==
  (1 :> {"G0","G1","G2","G3","G33","G38.n","G73","G76","G80","G81",
         "G82","G83","G84","G85","G86","G87","G88","G89"})
  @@ (2 :> {"G17","G18","G19","G17.1","G18.1","G19.1"})
  @@ (3 :> {"G90","G91"})
  @@ (4 :> {"G90.1","G91.1"})
  @@ (5 :> {"G93","G94","G95"})
  @@ (6 :> {"G20","G21"})
  @@ (7 :> {"G40","G41","G42","G41.1","G42.1"})
  @@ (8 :> {"G43","G43.1","G49"})
  @@ (10 :> {"G98","G99"})
  @@ (12 :> {"G54","G55","G56","G57","G58","G59","G59.1","G59.2","G59.3"})
  @@ (13 :> {"G61","G61.1","G64"})
  @@ (14 :> {"G96","G97"})
  @@ (15 :> {"G7","G8"})

\* the token mapping of CodeLine.__init__, in the order the dict is written:
\* k is the pattern text, name the same text as one string
tokens ==
  <<
    [k |-> <<"G","0">>, name |-> "G0", type |-> "MOVE_LINEAR", handler |-> "parse_linear"],
    [k |-> <<"G","1">>, name |-> "G1", type |-> "MOVE_LINEAR", handler |-> "parse_linear"],
    [k |-> <<"G","2","0">>, name |-> "G20", type |-> "UNITS", handler |-> "set_inches"],
    [k |-> <<"G","2","1">>, name |-> "G21", type |-> "UNITS", handler |-> "set_mms"],
    [k |-> <<"G","2">>, name |-> "G2", type |-> "MOVE_ARC", handler |-> "parse_arc"],
    [k |-> <<"G","3">>, name |-> "G3", type |-> "MOVE_ARC", handler |-> "parse_arc"],
    [k |-> <<"G","4","1">>, name |-> "G41", type |-> "CUTTER_COMP_LEFT", handler |-> "cutter_comp_error"],
    [k |-> <<"G","4","2">>, name |-> "G42", type |-> "CUTTER_COMP_RIGHT", handler |-> "cutter_comp_error"],
    [k |-> <<"G","4","1",".","1">>, name |-> "G41.1", type |-> "CUTTER_COMP_LEFT", handler |-> "cutter_comp_error"],
    [k |-> <<"G","4","2",".","1">>, name |-> "G42.1", type |-> "CUTTER_COMP_RIGHT", handler |-> "cutter_comp_error"],
    [k |-> <<"G","4","0">>, name |-> "G40", type |-> "CUTTER_COMP_OFF", handler |-> "placeholder"],
    [k |-> <<"G","6","4">>, name |-> "G64", type |-> "PATH_BLENDING", handler |-> "parse_passthrough"],
    [k |-> <<"M","5","2">>, name |-> "M52", type |-> "ADAPTIVE_FEED", handler |-> "parse_passthrough"],
    [k |-> <<"M","3">>, name |-> "M3", type |-> "SPINDLE_ON", handler |-> "parse_passthrough"],
    [k |-> <<"M","5">>, name |-> "M5", type |-> "SPINDLE_OFF", handler |-> "parse_passthrough"],
    [k |-> <<"M","1","9","0">>, name |-> "M190", type |-> "MATERIAL_CHANGE", handler |-> "parse_passthrough"],
    [k |-> <<"M","6","6">>, name |-> "M66", type |-> "DIGITAL_IN", handler |-> "parse_passthrough"],
    [k |-> <<"G","9","1",".","1">>, name |-> "G91.1", type |-> "ARC_RELATIVE", handler |-> "parse_passthrough"],
    [k |-> <<"G","9","0",".","1">>, name |-> "G90.1", type |-> "ARC_ABSOLUTE", handler |-> "parse_passthrough"],
    [k |-> <<"F","#">>, name |-> "F#", type |-> "FEEDRATE_MATERIAL", handler |-> "parse_passthrough"],
    [k |-> <<"F">>, name |-> "F", type |-> "FEEDRATE_LINE", handler |-> "parse_feedrate"],
    [k |-> <<"#","<","h","o","l","e","s",">">>, name |-> "#<holes>", type |-> "HOLE_MODE", handler |-> "placeholder"],
    [k |-> <<"#","<","h","_","d","i","a","m","e","t","e","r",">">>, name |-> "#<h_diameter>", type |-> "HOLE_DIAM", handler |-> "placeholder"],
    [k |-> <<"#","<","h","_","v","e","l","o","c","i","t","y",">">>, name |-> "#<h_velocity>", type |-> "HOLE_VEL", handler |-> "placeholder"],
    [k |-> <<"#","<","o","c","l","e","n","g","t","h",">">>, name |-> "#<oclength>", type |-> "HOLE_OVERCUT", handler |-> "placeholder"],
    [k |-> <<"#","<","p","i","e","r","c","e","-","o","n","l","y",">">>, name |-> "#<pierce-only>", type |-> "PIERCE_MODE", handler |-> "placeholder"],
    [k |-> <<";">>, name |-> ";", type |-> "COMMENT", handler |-> "parse_comment"],
    [k |-> <<"(">>, name |-> "(", type |-> "COMMENT", handler |-> "parse_comment"],
    [k |-> <<"T">>, name |-> "T", type |-> "TOOLCHANGE", handler |-> "parse_toolchange"]
  >>

\* the text of a token name ('' is the empty text)
TokenChars(name) ==
  IF name = "" THEN <<>>
  ELSE (CHOOSE t \in {tokens[n] : n \in 1..Len(tokens)} : t.name = name).k

\* "; ERROR: Invalid Cutchart ID in Tx. Check CAM Tools: "
InvalidCutchartText ==
  <<";"," ","E","R","R","O","R",":"," ","I","n","v","a","l","i","d"," ","C","u","t","c","h","a","r","t"," ","I","D"," ","i","n"," ","T","x","."," ","C","h","e","c","k"," ","C","A","M"," ","T","o","o","l","s",":"," ">>

(***************************************************************************)
(* The process database (PlasmaProcesses plugin), seen through its two     *)
(* queries: two cut processes, and HiDef rows for the first one.           *)
(***************************************************************************)
CutChart ==
  (1 :> [cut_speed |-> 2000 * Scale, thickness |-> 3 * Scale,
         machineid |-> 1, thicknessid |-> 1, materialid |-> 1])
  @@ (2 :> [cut_speed |-> 1000 * Scale, thickness |-> 10 * Scale,
            machineid |-> 1, thicknessid |-> 2, materialid |-> 1])

\* PLASMADB.cut_by_id(tool): the list of matching processes
cut_by_id(tool) == IF tool \in DOMAIN CutChart THEN <<CutChart[tool]>> ELSE <<>>

(***************************************************************************)
(* CodeLine                                                                *)
(***************************************************************************)
NoCommand == [len |-> 0, letter |-> "", kind |-> "none", num |-> 0]
Command(letter, kind, num) == [len |-> 2, letter |-> letter, kind |-> kind, num |-> num]

\* the attributes CodeLine.__init__ sets before classifying
NewCodeLine(line) ==
  [raw |-> line, type |-> "None", command |-> NoCommand, params |-> <<>>,
   comment |-> <<>>, errors |-> {}, is_hole |-> FALSE, token |-> "",
   active_g_modal_groups |-> <<>>, cutchart_id |-> None, hole_builder |-> None]

\* a dict kept in insertion order: 'k in params', params[k], params[k] = v
has_key(params, k) == \E n \in 1..Len(params) : params[n].k = k
get_key(params, k) == (CHOOSE n \in 1..Len(params) : params[n].k = k)
param(params, k) == params[get_key(params, k)].v
dict_set(params, k, v) ==
  IF has_key(params, k)
  THEN [params EXCEPT ![get_key(params, k)] = [k |-> k, v |-> v]]
  ELSE Append(params, [k |-> k, v |-> v])

\* the loop "if len(params) == 2: self.params[params[0]] = float(params[1])":
\* None when float() raises
RECURSIVE add_params(_, _)
add_params(params, words) ==
  IF words = <<>> THEN Some(params)
  ELSE LET w == Head(words)
           f == float_of(w.num)
       IN IF w.num = <<>> THEN add_params(params, Tail(words))
          ELSE IF IsNone(f) THEN None
          ELSE add_params(dict_set(params, w.letter, Val(f)), Tail(words))

\* The classifier works on a context c: the line l being built, the parent's
\* active process act, the module global UNITS_PER_MM (units, in tenths), the
\* number ndiag of lines written to stderr, and raised (an exception escaped).
Raise(c) == [c EXCEPT !.raised = TRUE]

\* CodeLine.parse_comment
parse_comment(c) ==
  [c EXCEPT !.l.comment = c.l.raw, !.l.command = Command(";", "none", 0), !.l.params = <<>>]

\* CodeLine.parse_inline_comment
parse_inline_comment(c) ==
  LET p == find_char(Drop(c.l.raw, 1), {";", "("})
  IN IF p # 0 THEN [c EXCEPT !.l.comment = Drop(c.l.raw, p)]
     ELSE [c EXCEPT !.l.comment = <<>>]

\* CodeLine.parse_passthrough
parse_passthrough(c) == [c EXCEPT !.l.type = "PASSTHROUGH"]

\* CodeLine.parse_linear
parse_linear(c) ==
  LET tk == TokenChars(c.l.token)
      up == upper(c.l.raw)
      line == strip(Drop(up, find(up, tk) + Len(tk) - 1))
      ps == add_params(c.l.params, finditer_words(line, 1, {"X", "Y"}))
      c1 == [c EXCEPT !.l.command = Command("G", "int", Val(int_of(Tail(tk))))]
  IN IF IsNone(ps) THEN Raise(c1) ELSE [c1 EXCEPT !.l.params = Val(ps)]

\* CodeLine.parse_XY_line
parse_XY_line(c) ==
  LET line == strip(upper(c.l.raw))
      words == finditer_words(line, 1, {"X", "Y"})
      ps == add_params(c.l.params, words)
  IN IF words = <<>> THEN c
     ELSE IF IsNone(ps) THEN Raise(c)
     ELSE [c EXCEPT !.l.params = Val(ps), !.l.type = "XY"]

\* CodeLine.parse_arc
parse_arc(c) ==
  LET tk == TokenChars(c.l.token)
      up == upper(strip_inline_comment(c.l.raw))
      line == strip(Drop(up, find(up, tk) + Len(tk) - 1))
      ps == add_params(c.l.params, finditer_words(line, 1, {"X", "Y", "I", "J", "P"}))
      c1 == [c EXCEPT !.l.command = Command("G", "int", Val(int_of(Tail(tk))))]
  IN IF IsNone(ps) THEN Raise(c1) ELSE [c1 EXCEPT !.l.params = Val(ps)]

\* SetActiveProcess without the assignment of active_thickness
SetActiveProcess_KeepThickness(act, tool, cut_process) ==
  [cutchart |-> Some(tool),
   feedrate |-> Some(cut_process.cut_speed),
   thickness |-> act.thickness,
   machineid |-> Some(cut_process.machineid),
   thicknessid |-> Some(cut_process.thicknessid),
   materialid |-> Some(cut_process.materialid)]

\* the assignments of parse_toolchange for a process found in the database
SetActiveProcess(act, tool, cut_process) ==
  [cutchart |-> Some(tool),
   feedrate |-> Some(cut_process.cut_speed),
   thickness |-> Some(cut_process.thickness),
   machineid |-> Some(cut_process.machineid),
   thicknessid |-> Some(cut_process.thicknessid),
   materialid |-> Some(cut_process.materialid)]

\* parse_toolchange that leaves no process active after an id the database
\* does not have
parse_toolchange_ClearUnknown(c, combo) ==
  LET line == strip_inline_comment(c.l.raw)
      f == findall_tool_m6(strip(upper(line)), 1)
      src == IF combo THEN (IF f = <<>> THEN <<>> ELSE f[1]) ELSE line
      p == find_char(src, {"T"})
      tool == int_of(Drop(src, p))
      c1 == IF combo THEN [c EXCEPT !.l.type = "PASSTHROUGH"]
            ELSE [c EXCEPT !.l.command = Command("T", "int", Val(tool)),
                           !.l.type = "TOOLCHANGE"]
      cut_process == cut_by_id(Val(tool))
  IN IF (combo /\ f = <<>>) \/ p = 0 \/ IsNone(tool) THEN Raise(c)
     ELSE IF Len(cut_process) = 0
     THEN [c1 EXCEPT !.l.raw = InvalidCutchartText \o c.l.raw,
                     !.act = [k \in DOMAIN c.act |-> None]]
     ELSE [c1 EXCEPT !.l.cutchart_id = Some(Val(tool)),
                     !.act = SetActiveProcess(c.act, Val(tool), cut_process[1])]

\* CodeLine.parse_toolchange
parse_toolchange(c, combo) ==
  LET line == strip_inline_comment(c.l.raw)
      f == findall_tool_m6(strip(upper(line)), 1)
      src == IF combo THEN (IF f = <<>> THEN <<>> ELSE f[1]) ELSE line
      p == find_char(src, {"T"})
      tool == int_of(Drop(src, p))
      c1 == IF combo THEN [c EXCEPT !.l.type = "PASSTHROUGH"]
            ELSE [c EXCEPT !.l.command = Command("T", "int", Val(tool)),
                           !.l.type = "TOOLCHANGE"]
      cut_process == cut_by_id(Val(tool))
  IN IF (combo /\ f = <<>>) \/ p = 0 \/ IsNone(tool) THEN Raise(c)
     ELSE IF Len(cut_process) = 0
     THEN [c1 EXCEPT !.l.raw = InvalidCutchartText \o c.l.raw]
     ELSE [c1 EXCEPT !.l.cutchart_id = Some(Val(tool)),
                     !.act = SetActiveProcess(c.act, Val(tool), cut_process[1])]

\* CodeLine.parse_feedrate
parse_feedrate(c) ==
  LET line == strip_inline_comment(c.l.raw)
      p == find_char(line, {"F"})
      feed == float_of(Drop(line, p))
      used == IF ~IsNone(c.act.feedrate) THEN Val(c.act.feedrate) ELSE Val(feed)
  IN IF p = 0 \/ IsNone(feed) THEN Raise(c)
     ELSE [c EXCEPT !.l.command = Command("F", "float", used)]

\* UNITS_PER_MM is kept in tenths: 25.4 is InchUnits, 1 is MmUnits
InchUnits == 254
MmUnits == 10

\* CodeLine.set_inches
set_inches(c) == [c EXCEPT !.units = InchUnits, !.l.command = Command("G", "int", 20)]

\* CodeLine.set_mms
set_mms(c) == [c EXCEPT !.units = MmUnits, !.l.command = Command("G", "int", 21)]

\* CodeLine.cutter_comp_error
cutter_comp_error(c) ==
  [c EXCEPT !.l.errors = @ \cup {"compError"}, !.ndiag = @ + 1, !.l.type = "REMOVE"]

\* CodeLine.placeholder
placeholder(c) == c

\* the call "tokens[k][1]()"
CallHandler(handler, c) ==
  CASE handler = "parse_linear" -> parse_linear(c)
    [] handler = "parse_arc" -> parse_arc(c)
    [] handler = "set_inches" -> set_inches(c)
    [] handler = "set_mms" -> set_mms(c)
    [] handler = "cutter_comp_error" -> cutter_comp_error(c)
    [] handler = "parse_passthrough" -> parse_passthrough(c)
    [] handler = "parse_feedrate" -> parse_feedrate(c)
    [] handler = "parse_comment" -> parse_comment(c)
    [] handler = "parse_toolchange" -> parse_toolchange(c, FALSE)
    [] OTHER -> placeholder(c)

\* the number of tokens the loop "for k in tokens" tests before it breaks:
\* the index of the first pattern that matches, 0 if none does
FirstMatch(line) ==
  LET M == {n \in 1..Len(tokens) : re_search_prefix(tokens[n].k, upper(line))}
  IN IF M = {} THEN 0 ELSE CHOOSE n \in M : \A m \in M : n <= m

\* the loop "for code in multi_codes": one cutter_comp_error per listed code
RECURSIVE scan_bad_codes(_, _)
scan_bad_codes(c, codes) ==
  IF codes = <<>> THEN c
  ELSE scan_bad_codes(
         IF Head(codes) \in {<<"G","4","1">>, <<"G","4","2">>,
                             <<"G","4","1",".","1">>, <<"G","4","2",".","1">>}
         THEN cutter_comp_error(c) ELSE c,
         Tail(codes))

\* the multiple-code branch without the look for a Tx M6 combo: the line is
\* taken as passthrough and no more
InitMulti_NoLookup(c, multi_codes) ==
  scan_bad_codes([c EXCEPT !.l.type = "PASSTHROUGH"], multi_codes)

\* the multiple-code branch of CodeLine.__init__
InitMulti(c, multi_codes) ==
  LET c1 == scan_bad_codes([c EXCEPT !.l.type = "PASSTHROUGH"], multi_codes)
      f == findall_tool_m6(strip(upper(c.l.raw)), 1)
  IN IF Len(f) = 2 THEN parse_toolchange(c1, TRUE) ELSE c1

\* "if self.type is not Commands.COMMENT: self.parse_inline_comment()"
inline_comment_check(c) ==
  IF c.raised \/ c.l.type = "COMMENT" THEN c ELSE parse_inline_comment(c)

\* the loop "for k in tokens" for the first pattern that matches, tokens[n];
\* with no match (n = 0) every turn sets the type PASSTHROUGH
classify(c, n) ==
  IF n = 0 THEN [c EXCEPT !.l.type = "PASSTHROUGH"]
  ELSE inline_comment_check(
         CallHandler(tokens[n].handler,
                     [c EXCEPT !.l.type = tokens[n].type, !.l.token = tokens[n].name]))

\* "if self.type is Commands.PASSTHROUGH: self.parse_XY_line()"
passthrough_check(c) ==
  IF ~c.raised /\ c.l.type = "PASSTHROUGH" THEN parse_XY_line(c) ELSE c

\* the single-code branch of CodeLine.__init__
InitSingle(c) == passthrough_check(classify(c, FirstMatch(c.l.raw)))

\* CodeLine.__init__(line, parent): line is the stripped text
CodeLine(line, act, units) ==
  LET c == [l |-> NewCodeLine(line), act |-> act, units |-> units,
            ndiag |-> 0, raised |-> FALSE]
      multi_codes == findall_codes(strip(upper(line)), 1)
  IN IF Len(multi_codes) > 1 THEN InitMulti(c, multi_codes) ELSE InitSingle(c)

(***************************************************************************)
(* Inputs: program texts, HAL values, HiDef tables                         *)
(***************************************************************************)
\* the lines the programs are made of, without their line end:
\*   T1       'T1'
\*   T2       'T2'
\*   T9       'T9'
\*   T1M6     'T1 M6'
\*   T9M6     'T9 M6'
\*   F100     'F100'
\*   G1X1     'G1 X1'
\*   t1       't1'
\*   G41      'G41'
\*   G42_1    'G42.1 D1'
\*   G1G42    'G1 X1 G42'
\*   T1M6G41  'T1 M6 G41'
\*   G41G42   'G41 G42'
\*   G40      'G40'
\*   g41      'g41'
\*   M2       'M2'
\*   sM2      '  M2'
\*   M2s      'M2 '
\*   M2X      'M2 (X)'
\*   M2A      'M2 (A)'
\*   X1Y2     'X1 Y2'
\*   C        '(C)'
\*   G20      'G20'
\*   G21      'G21'
\*   M3       'M3 $0'
\*   M5       'M5 $0'
\*   M52      'M52 P1'
\*   G1X0Y0   'G1 X0 Y0'
\*   G0X0Y0   'G0 X0 Y0'
\*   G0X9Y9   'G0 X9 Y9'
\*   G1X0     'G1 X0'
\*   X0Y0     'X0 Y0'
\*   G1X2Y2   'G1 X2 Y2'
\*   G3       'G3 X0 Y0 I5 J0'
\*   G3IJ     'G3 I5 J0'
\*   G3open   'G3 X0 Y1 I5 J0'
\*   G3noJ    'G3 X0 Y0 I5'
\*   G3small  'G3 X0 Y0 I1 J0'
\*   G3diag   'G3 X0 Y0 I3 J4'
\*   G3zero   'G3 X0 Y0 I0 J0'
\*   Fsym     'F#<f>'
\*   G17      'G17'
\*   G10      'G10 X1'
\*   G38      'G38.2 X1'
\*   M30      'M30'
\*   G03      'G03 X1 Y1'
\*   G90      'G90'
\*   G64      'G64 P1'
\*   M190     'M190 P1'
\*   M66      'M66 P3'
\*   G901     'G90.1'
\*   M190MAX  'M190 P1 (MAX)'
\*   T2M6     'T2 M6'
\*   T1M6X    'T1 M6 (X)'
\*   G21G90   'G21 G90'
\*   G0M3     'G0 X1 M3'
Text ==
  [
   T1 |-> <<"T","1">>,
   T2 |-> <<"T","2">>,
   T9 |-> <<"T","9">>,
   T1M6 |-> <<"T","1"," ","M","6">>,
   T9M6 |-> <<"T","9"," ","M","6">>,
   F100 |-> <<"F","1","0","0">>,
   G1X1 |-> <<"G","1"," ","X","1">>,
   t1 |-> <<"t","1">>,
   G41 |-> <<"G","4","1">>,
   G42_1 |-> <<"G","4","2",".","1"," ","D","1">>,
   G1G42 |-> <<"G","1"," ","X","1"," ","G","4","2">>,
   T1M6G41 |-> <<"T","1"," ","M","6"," ","G","4","1">>,
   G41G42 |-> <<"G","4","1"," ","G","4","2">>,
   G40 |-> <<"G","4","0">>,
   g41 |-> <<"g","4","1">>,
   M2 |-> <<"M","2">>,
   sM2 |-> <<" "," ","M","2">>,
   M2s |-> <<"M","2"," ">>,
   M2X |-> <<"M","2"," ","(","X",")">>,
   M2A |-> <<"M","2"," ","(","A",")">>,
   X1Y2 |-> <<"X","1"," ","Y","2">>,
   C |-> <<"(","C",")">>,
   G20 |-> <<"G","2","0">>,
   G21 |-> <<"G","2","1">>,
   M3 |-> <<"M","3"," ","$","0">>,
   M5 |-> <<"M","5"," ","$","0">>,
   M52 |-> <<"M","5","2"," ","P","1">>,
   G1X0Y0 |-> <<"G","1"," ","X","0"," ","Y","0">>,
   G0X0Y0 |-> <<"G","0"," ","X","0"," ","Y","0">>,
   G0X9Y9 |-> <<"G","0"," ","X","9"," ","Y","9">>,
   G1X0 |-> <<"G","1"," ","X","0">>,
   X0Y0 |-> <<"X","0"," ","Y","0">>,
   G1X2Y2 |-> <<"G","1"," ","X","2"," ","Y","2">>,
   G3 |-> <<"G","3"," ","X","0"," ","Y","0"," ","I","5"," ","J","0">>,
   G3IJ |-> <<"G","3"," ","I","5"," ","J","0">>,
   G3open |-> <<"G","3"," ","X","0"," ","Y","1"," ","I","5"," ","J","0">>,
   G3noJ |-> <<"G","3"," ","X","0"," ","Y","0"," ","I","5">>,
   G3small |-> <<"G","3"," ","X","0"," ","Y","0"," ","I","1"," ","J","0">>,
   G3diag |-> <<"G","3"," ","X","0"," ","Y","0"," ","I","3"," ","J","4">>,
   G3zero |-> <<"G","3"," ","X","0"," ","Y","0"," ","I","0"," ","J","0">>,
   Fsym |-> <<"F","#","<","f",">">>,
   G17 |-> <<"G","1","7">>,
   G10 |-> <<"G","1","0"," ","X","1">>,
   G38 |-> <<"G","3","8",".","2"," ","X","1">>,
   M30 |-> <<"M","3","0">>,
   G03 |-> <<"G","0","3"," ","X","1"," ","Y","1">>,
   G90 |-> <<"G","9","0">>,
   G64 |-> <<"G","6","4"," ","P","1">>,
   M190 |-> <<"M","1","9","0"," ","P","1">>,
   M66 |-> <<"M","6","6"," ","P","3">>,
   G901 |-> <<"G","9","0",".","1">>,
   M190MAX |-> <<"M","1","9","0"," ","P","1"," ","(","M","A","X",")">>,
   T2M6 |-> <<"T","2"," ","M","6">>,
   T1M6X |-> <<"T","1"," ","M","6"," ","(","X",")">>,
   G21G90 |-> <<"G","2","1"," ","G","9","0">>,
   G0M3 |-> <<"G","0"," ","X","1"," ","M","3">>
  ]

\* lines that select a process or use one
ToolLines ==
  {Text.T1, Text.T2, Text.T9, Text.T1M6, Text.T9M6, Text.F100, Text.G1X1, Text.t1,
   Text.Fsym}
\* lines with cutter compensation codes
CompLines ==
  {Text.G41, Text.G42_1, Text.G1G42, Text.T1M6G41, Text.G41G42, Text.G40, Text.g41}
\* lines no handler parses, and the unit codes
PassLines ==
  {Text.M2, Text.sM2, Text.M2s, Text.M2X, Text.M2A, Text.X1Y2, Text.C, Text.G20, Text.G21}

\* lines whose code begins with the text of a shorter pattern, and a modal
\* code no pattern matches
PrefixLines ==
  {Text.G17, Text.G10, Text.G38, Text.M30, Text.G03, Text.G90}
\* lines the passthrough handler classifies
PassthroughLines ==
  {Text.G64, Text.M190, Text.M66, Text.G901, Text.M190MAX}
\* lines with several commands and no cutter compensation code, and a feed
MultiLines ==
  {Text.T1M6, Text.T2M6, Text.T9M6, Text.T1M6X, Text.G21G90, Text.G0M3, Text.F100}

\* the longest program made freely of the lines of one family
MaxFree == 2

SeqsUpTo(S, n) == UNION {[1..m -> S] : m \in 0..n}

FreePrograms ==
  SeqsUpTo(ToolLines, MaxFree) \cup SeqsUpTo(CompLines, MaxFree)
  \cup SeqsUpTo(PassLines, MaxFree)
  \cup SeqsUpTo(PrefixLines, MaxFree) \cup SeqsUpTo(PassthroughLines, MaxFree)
  \cup SeqsUpTo(MultiLines, MaxFree)

\* programs around one G3: a process, the approach, the arc, the retract
HoleTool == {<<>>, <<Text.T1>>, <<Text.T2>>}
HoleApproach ==
  {<<>>,
   <<Text.G1X0Y0>>,
   <<Text.M3, Text.G1X0Y0>>,
   <<Text.G0X0Y0, Text.M3>>,
   <<Text.G0X9Y9, Text.M3, Text.G1X0Y0>>,
   <<Text.M3, Text.C, Text.G1X0Y0>>,
   <<Text.G1X0>>,
   <<Text.X0Y0>>}
HoleArc ==
  {<<Text.G3>>, <<Text.G3IJ>>, <<Text.G3open>>, <<Text.G3noJ>>, <<Text.G3small>>,
   <<Text.G3diag>>, <<Text.G3zero>>}
HoleRetract ==
  {<<>>, <<Text.M5>>, <<Text.M52, Text.M5>>, <<Text.G1X2Y2, Text.M5, Text.M2>>}

HolePrograms ==
  {t \o a \o g \o r : t \in HoleTool, a \in HoleApproach, g \in HoleArc, r \in HoleRetract}

\* programs with two cuts: two holes in a row, a cut before a hole that has
\* no spindle-on of its own, a hole cut with cutter compensation left on, a
\* hole cut in absolute arc mode
TwoCutPrograms ==
  {<<Text.T1, Text.M3, Text.G1X0Y0, Text.G3small, Text.G3small, Text.M5>>,
   <<Text.T1, Text.M3, Text.G1X2Y2, Text.M5, Text.G1X0Y0, Text.G3small, Text.M5, Text.M2>>,
   <<Text.T1, Text.G41, Text.M3, Text.G1X0Y0, Text.G3, Text.M5>>,
   <<Text.T2, Text.G901, Text.M3, Text.G1X0Y0, Text.G3small, Text.M5>>}

\* file.readlines(): every line with its line end
readlines(texts) == [n \in 1..Len(texts) |-> texts[n] \o <<"\n">>]

\* programs with a tool line whose id the database does not have, alone or
\* with M6, after a process was selected or before any: a feed after it, a
\* hole after it
UnknownToolPrograms ==
  {<<Text.T1, Text.T9, Text.F100>>,
   <<Text.T2, Text.T9M6, Text.F100>>,
   <<Text.T1, Text.T9, Text.T9M6, Text.F100>>,
   <<Text.T2, Text.T9, Text.M3, Text.G1X0Y0, Text.G3small, Text.M5>>,
   <<Text.T1, Text.T9M6, Text.M3, Text.G1X0Y0, Text.G3, Text.M5>>,
   <<Text.T9, Text.M3, Text.G1X0Y0, Text.G3small, Text.M5>>}

Programs ==
  {readlines(p) : p \in FreePrograms \cup HolePrograms \cup TwoCutPrograms
                       \cup UnknownToolPrograms}

\* the HAL pins flag_holes and plasma_hole read; lengths in thousandths
BaseHal ==
  [hole_thickness_ratio |-> 0, max_hole_size |-> 20 * Scale,
   arc1_percent |-> 100, arc2_percent |-> 60, arc3_percent |-> 40,
   arc2_distance |-> Scale, arc3_distance |-> Scale, leadin_percent |-> 50,
   leadin_radius |-> 0, kirfwidth |-> Scale, torch_off_distance |-> Scale,
   small_hole_detect |-> FALSE, small_hole_threshold |-> 0, spot_delay |-> 1]

\* lead-in radius pins: 1.0, 2.25, 2.75, 4.6 and -1.0
LeadinRadii ==
  {Scale, (9 * Scale) \div 4, (11 * Scale) \div 4, (46 * Scale) \div 10, 0 - Scale}

\* the four feed percentages of the pins
BaseHalPercent ==
  [arc1 |-> BaseHal.arc1_percent, arc2 |-> BaseHal.arc2_percent,
   arc3 |-> BaseHal.arc3_percent, leadin |-> BaseHal.leadin_percent]

HalConfigs ==
  {BaseHal,
   [BaseHal EXCEPT !.small_hole_detect = TRUE, !.small_hole_threshold = 5 * Scale],
   [BaseHal EXCEPT !.small_hole_detect = TRUE, !.small_hole_threshold = 12 * Scale],
   [BaseHal EXCEPT !.arc2_distance = 0, !.arc3_distance = 0, !.torch_off_distance = 0],
   [BaseHal EXCEPT !.hole_thickness_ratio = 1, !.max_hole_size = 0],
   [BaseHal EXCEPT !.max_hole_size = 254 * Scale]}
  \cup {[BaseHal EXCEPT !.leadin_radius = l] : l \in LeadinRadii}
  \cup {[BaseHal EXCEPT !.kirfwidth = 2 * Scale]}

\* HiDef tables: up to MaxRows rows, hole sizes ascending among the first
\* MaxSize multiples of 2.5, every attribute of a row 1.0 or 2.0
MaxRows == 3
MaxSize == 4
SizeStep == (5 * Scale) \div 2

hidef_row(size, value) ==
  [hole_size |-> size, leadin_radius |-> value, kerf |-> value, cut_height |-> value,
   speed1 |-> value, speed2 |-> value, speed2_distance |-> value,
   plasma_off_distance |-> value, over_cut |-> value, amps |-> 45]

HiDefTables ==
  {t \in SeqsUpTo({hidef_row(k * SizeStep, v * Scale) : k \in 1..MaxSize, v \in 1..2}, MaxRows) :
     \A n \in 2..Len(t) : t[n - 1].hole_size < t[n].hole_size}

HoleSizes == {(k * SizeStep) \div 2 : k \in 0..(2 * MaxSize + 2)}

(***************************************************************************)
(* PreProcessor: state                                                     *)
(***************************************************************************)
VARIABLES
  orig_gcode,            \* self._orig_gcode: the lines readlines() returned
  parsed,                \* self._parsed: the CodeLine objects
  line_num,              \* self._line_num
  active_g_modal_grps,   \* self.active_g_modal_grps: group -> code
  active_cutchart,       \* self.active_cutchart
  active_feedrate,       \* self.active_feedrate
  active_thickness,      \* self.active_thickness
  active_machineid,      \* self.active_machineid
  active_thicknessid,    \* self.active_thicknessid
  active_materialid,     \* self.active_materialid
  UNITS_PER_MM,          \* the module global, in tenths
  PRECISION,             \* the module global
  pc,                    \* where main() is
  fh,                    \* the locals flag_holes computes from HAL before its loop
  i,                     \* the loop index of flag_holes
  lastx,                 \* local of flag_holes, None while unbound
  lasty,                 \* local of flag_holes, None while unbound
  geom,                  \* locals of flag_holes for the current hole
  hidef_hole,            \* the HiDefHole object last built
  hidef_ret,             \* the last call of get_attribute and what it returned
  dumped,                \* number of lines dump_parsed has gone through
  stdout,                \* what was printed to sys.stdout
  stderr                 \* line numbers of the diagnostics printed to sys.stderr

vars ==
  <<orig_gcode, parsed, line_num, active_g_modal_grps, active_cutchart,
    active_feedrate, active_thickness, active_machineid, active_thicknessid,
    active_materialid, UNITS_PER_MM, PRECISION, pc, fh, i, lastx, lasty, geom,
    hidef_hole, hidef_ret, dumped, stdout, stderr>>

processVars ==
  <<active_cutchart, active_feedrate, active_thickness, active_machineid,
    active_thicknessid, active_materialid>>

holeVars == <<fh, i, lastx, lasty, geom, hidef_hole, hidef_ret>>

\* the parent attributes a CodeLine reads and writes
ActiveProcess ==
  [cutchart |-> active_cutchart, feedrate |-> active_feedrate,
   thickness |-> active_thickness, machineid |-> active_machineid,
   thicknessid |-> active_thicknessid, materialid |-> active_materialid]

\* PreProcessor.set_active_g_modal, as the new value of the group dict
set_active_g_modal(grps, gcode) ==
  IF \E g \in DOMAIN G_MODAL_GROUPS : gcode \in G_MODAL_GROUPS[g]
  THEN LET g == CHOOSE g \in DOMAIN G_MODAL_GROUPS : gcode \in G_MODAL_GROUPS[g]
       IN [k \in DOMAIN grps \cup {g} |-> IF k = g THEN gcode ELSE grps[k]]
  ELSE grps

\* the head of PreProcessor.parse: the default modal groups
parse_begin ==
  /\ pc = "start"
  /\ active_g_modal_grps' =
       set_active_g_modal(set_active_g_modal(active_g_modal_grps, "G91.1"), "G40")
  /\ pc' = "parse"
  /\ UNCHANGED <<orig_gcode, parsed, line_num, processVars, UNITS_PER_MM, PRECISION,
                 holeVars, dumped, stdout, stderr>>

\* parse_append with a save_g_modal_group that keeps the parent's dict itself
\* and not a copy of it: every line parsed so far shows the groups of the last
parse_append_NoCopy(c) ==
  /\ line_num' = line_num + 1
  /\ stderr' = stderr \o [k \in 1..c.ndiag |-> line_num + 1]
  /\ UNITS_PER_MM' = c.units
  /\ active_cutchart' = c.act.cutchart
  /\ active_feedrate' = c.act.feedrate
  /\ active_thickness' = c.act.thickness
  /\ active_machineid' = c.act.machineid
  /\ active_thicknessid' = c.act.thicknessid
  /\ active_materialid' = c.act.materialid
  /\ IF c.raised
     THEN /\ pc' = "aborted"
          /\ UNCHANGED <<parsed, active_g_modal_grps>>
     ELSE /\ pc' = pc
          /\ active_g_modal_grps' = set_active_g_modal(active_g_modal_grps, c.l.token)
          /\ parsed' = [n \in 1..(Len(parsed) + 1) |->
                          [(IF n <= Len(parsed) THEN parsed[n] ELSE c.l)
                             EXCEPT !.active_g_modal_groups =
                               set_active_g_modal(active_g_modal_grps, c.l.token)]]

\* the rest of a turn of the loop once CodeLine has returned c: the parent's
\* fields the handlers wrote, set_active_g_modal, save_g_modal_group, append
parse_append(c) ==
  /\ line_num' = line_num + 1
  /\ stderr' = stderr \o [k \in 1..c.ndiag |-> line_num + 1]
  /\ UNITS_PER_MM' = c.units
  /\ active_cutchart' = c.act.cutchart
  /\ active_feedrate' = c.act.feedrate
  /\ active_thickness' = c.act.thickness
  /\ active_machineid' = c.act.machineid
  /\ active_thicknessid' = c.act.thicknessid
  /\ active_materialid' = c.act.materialid
  /\ IF c.raised
     THEN /\ pc' = "aborted"
          /\ UNCHANGED <<parsed, active_g_modal_grps>>
     ELSE /\ pc' = pc
          /\ active_g_modal_grps' = set_active_g_modal(active_g_modal_grps, c.l.token)
          /\ parsed' = Append(parsed,
                              [c.l EXCEPT !.active_g_modal_groups =
                                 set_active_g_modal(active_g_modal_grps, c.l.token)])

\* one turn of the loop of PreProcessor.parse
parse_line ==
  /\ pc = "parse"
  /\ line_num < Len(orig_gcode)
  /\ parse_append(CodeLine(strip(orig_gcode[line_num + 1]), ActiveProcess, UNITS_PER_MM))
  /\ UNCHANGED <<orig_gcode, PRECISION, holeVars, dumped, stdout>>

(***************************************************************************)
(* PreProcessor.dump_parsed                                                *)
(***************************************************************************)
\* "(---- Smart Hole Start ----)"
SmartHoleStart ==
  <<"(","-","-","-","-"," ","S","m","a","r","t"," ","H","o","l","e"," ","S","t","a","r","t"," ","-","-","-","-",")">>
\* "(---- Smart Hole End ----)"
SmartHoleEnd ==
  <<"(","-","-","-","-"," ","S","m","a","r","t"," ","H","o","l","e"," ","E","n","d"," ","-","-","-","-",")">>

\* what print() wrote: a text, or a generated element printed with a precision
TextOut(n, text) == [src |-> n, kind |-> "text", text |-> text]
ElementOut(n, e, precision) == [src |-> n, kind |-> "element", e |-> e, precision |-> precision]

\* f"{l.command[0]}{l.command[1]}", '' when the command is empty
command_str(command) ==
  IF command.len = 0 THEN <<>>
  ELSE IF command.letter = ";" THEN <<";", "N", "o", "n", "e">>
  ELSE <<command.letter>> \o
       (IF command.kind = "float" THEN float_str(command.num) ELSE int_str(command.num))

RECURSIVE params_str(_)
params_str(params) ==
  IF params = <<>> THEN <<>>
  ELSE <<" ", Head(params).k>> \o float_str(Head(params).v) \o params_str(Tail(params))

\* HoleBuilder.generate_hole_gcode: the elements whose code is not None
RECURSIVE generate_hole_gcode(_, _, _)
generate_hole_gcode(n, elements, precision) ==
  IF elements = <<>> THEN <<>>
  ELSE (IF Head(elements).code = "None" THEN <<>>
        ELSE <<ElementOut(n, Head(elements), precision)>>)
       \o generate_hole_gcode(n, Tail(elements), precision)

\* a turn of the loop that prints the text of a line marked for removal
dump_line_KeepRemoved(n, l, precision) ==
  IF l.is_hole
  THEN <<TextOut(n, SmartHoleStart)>>
       \o generate_hole_gcode(n, Val(l.hole_builder), precision)
       \o <<TextOut(n, SmartHoleEnd), TextOut(n, <<>>)>>
  ELSE IF l.type = "COMMENT" THEN <<TextOut(n, l.comment)>>
  ELSE IF l.type \in {"PASSTHROUGH", "REMOVE"} THEN <<TextOut(n, l.raw)>>
  ELSE <<TextOut(n, strip(command_str(l.command) \o params_str(l.params)
                          \o <<" ">> \o l.comment))>>

\* what one turn of the loop of dump_parsed prints for line number n
dump_line(n, l, precision) ==
  IF l.is_hole
  THEN <<TextOut(n, SmartHoleStart)>>
       \o generate_hole_gcode(n, Val(l.hole_builder), precision)
       \o <<TextOut(n, SmartHoleEnd), TextOut(n, <<>>)>>
  ELSE IF l.type = "COMMENT" THEN <<TextOut(n, l.comment)>>
  ELSE IF l.type = "PASSTHROUGH" THEN <<TextOut(n, l.raw)>>
  ELSE IF l.type = "REMOVE" THEN <<>>
  ELSE <<TextOut(n, strip(command_str(l.command) \o params_str(l.params)
                          \o <<" ">> \o l.comment))>>

\* one turn of the loop of PreProcessor.dump_parsed
dump_parsed ==
  /\ pc = "dump"
  /\ dumped < Len(parsed)
  /\ dumped' = dumped + 1
  /\ stdout' = stdout \o dump_line(dumped + 1, parsed[dumped + 1], PRECISION)
  /\ UNCHANGED <<orig_gcode, parsed, line_num, active_g_modal_grps, processVars,
                 UNITS_PER_MM, PRECISION, pc, holeVars, stderr>>

\* the tail of main(): set_ui_hal_cutchart_pin and PLASMADB.terminate
main_exit ==
  /\ pc = "dump"
  /\ dumped = Len(parsed)
  /\ pc' = "exit"
  /\ UNCHANGED <<orig_gcode, parsed, line_num, active_g_modal_grps, processVars,
                 UNITS_PER_MM, PRECISION, holeVars, dumped, stdout, stderr>>

(***************************************************************************)
(* Geometry values                                                         *)
(*                                                                         *)
(* A length along a hole's circumference is k * circumference + a, and the *)
(* angle it subtends, length / r0 with circumference = 2 * pi * r0, is     *)
(* 2 * pi * k + a / r0.  A coordinate is v, or v + r * f(a / r0) with f    *)
(* the sine or cosine of the angle measured from 12 o'clock.  pi being     *)
(* irrational, two coordinates are equal as real numbers exactly when      *)
(* these records are equal.                                                *)
(***************************************************************************)
Num(v) == [v |-> v, r |-> 0, a |-> 0, r0 |-> 1, f |-> "id"]
Plus(c, n) == [c EXCEPT !.v = @ + n]

Circumferance == [k |-> 1, a |-> 0]
LenSub(l, n) == [l EXCEPT !.a = @ - n]
LenAdd(l, n) == [l EXCEPT !.a = @ + n]
LenSubLen(l, m) == [k |-> l.k - m.k, a |-> l.a - m.a]

Abs(n) == IF n < 0 THEN 0 - n ELSE n

\* cx + r * math.cos(ang + degs90) = cx - r * sin(ang)
circle_x(cx, r, ang) ==
  IF ang.a = 0 \/ r = 0 THEN Num(cx)
  ELSE [v |-> cx, r |-> r, a |-> ang.a, r0 |-> ang.r0, f |-> "sin"]

\* cy + r * math.sin(ang + degs90) = cy + r * cos(ang)
circle_y(cy, r, ang) ==
  IF ang.a = 0 \/ r = 0 THEN Num(cy + r)
  ELSE [v |-> cy, r |-> r, a |-> Abs(ang.a), r0 |-> ang.r0, f |-> "cos"]

\* math.sqrt(n) for n >= 0, to the integer below
RECURSIVE sqrt_between(_, _, _)
sqrt_between(n, lo, hi) ==
  IF hi - lo <= 1 THEN lo
  ELSE LET mid == (lo + hi) \div 2
       IN IF mid * mid <= n THEN sqrt_between(n, mid, hi) ELSE sqrt_between(n, lo, mid)

sqrt(n) == sqrt_between(n, 0, 46340)

\* HoleBuilder.line_length
line_length(x1, y1, x2, y2) ==
  LET a == (x2 - x1) * (x2 - x1)
      b == (y2 - y1) * (y2 - y1)
  IN sqrt(a + b)

(***************************************************************************)
(* HiDefHole                                                               *)
(***************************************************************************)
\* PLASMADB.hidef_holes(machineid, materialid, thicknessid): the rows of the
\* HiDef table of that combination, ascending in hole size
HiDefRows ==
  <<[hole_size |-> 5 * Scale, leadin_radius |-> Scale, kerf |-> Scale,
     cut_height |-> Scale, speed1 |-> 100 * Scale, speed2 |-> 50 * Scale,
     speed2_distance |-> Scale, plasma_off_distance |-> Scale, over_cut |-> Scale,
     amps |-> 45],
    [hole_size |-> 10 * Scale, leadin_radius |-> Scale, kerf |-> 2 * Scale,
     cut_height |-> Scale, speed1 |-> 100 * Scale, speed2 |-> 50 * Scale,
     speed2_distance |-> Scale, plasma_off_distance |-> Scale, over_cut |-> Scale,
     amps |-> 45]>>

hidef_holes(machineid, materialid, thicknessid) ==
  IF machineid = Some(1) /\ materialid = Some(1) /\ thicknessid = Some(1)
  THEN HiDefRows ELSE <<>>

HiDefAttributes ==
  {"leadinradius", "kerf", "cutheight", "speed1", "speed2", "speed2dist",
   "offdistance", "overcut"}

\* the dict HiDefHole.__init__ appends for one database row
hole_entry(d) ==
  [hole |-> d.hole_size, leadinradius |-> d.leadin_radius, kerf |-> d.kerf,
   cutheight |-> d.cut_height, speed1 |-> d.speed1, speed2 |-> d.speed2,
   speed2dist |-> d.speed2_distance, offdistance |-> d.plasma_off_distance,
   overcut |-> d.over_cut, amps |-> d.amps]

\* HiDefHole.__init__: hole_list, and for every row but the first the scale
\* factors value / delta, kept as the fraction num / den; raised is the
\* ZeroDivisionError of two rows of one size
HiDefHole(data_list) ==
  LET hole_list == [n \in 1..Len(data_list) |-> hole_entry(data_list[n])]
      delta(n) == hole_list[n].hole - hole_list[n - 1].hole
  IN [hole_list |-> hole_list,
      scale |-> [n \in 1..Len(data_list) |->
                  IF n = 1 THEN [a \in {} |-> 0]
                  ELSE [a \in HiDefAttributes |-> [num |-> hole_list[n][a], den |-> delta(n)]]],
      raised |-> \E n \in 2..Len(data_list) : delta(n) = 0]

\* holesize * scale, to the thousandth
times_scale(holesize, s) == (holesize * s.num) \div s.den

\* get_attribute with the test "hole_list[i-1]['hole'] < holesize < hole_list[i]['hole']"
get_attribute_Strict(h, attribute, holesize) ==
  LET B == {n \in 2..Len(h.hole_list) :
              h.hole_list[n - 1].hole < holesize /\ holesize < h.hole_list[n].hole}
  IN IF B = {} THEN None
     ELSE LET n == CHOOSE n \in B : \A m \in B : n <= m
          IN Some(times_scale(holesize, h.scale[n][attribute]))

\* HiDefHole.get_attribute: None, or the value
get_attribute(h, attribute, holesize) ==
  LET B == {n \in 2..Len(h.hole_list) :
              h.hole_list[n - 1].hole <= holesize /\ holesize <= h.hole_list[n].hole}
  IN IF B = {} THEN None
     ELSE LET n == CHOOSE n \in B : \A m \in B : n <= m
          IN Some(times_scale(holesize, h.scale[n][attribute]))

(***************************************************************************)
(* HoleBuilder                                                             *)
(***************************************************************************)
create_ccw_arc_gcode(x, y, rx, ry) == [code |-> "G3", x |-> x, y |-> y, i |-> rx, j |-> ry]
create_cw_arc_gcode(x, y, rx, ry) == [code |-> "G2", x |-> x, y |-> y, i |-> rx, j |-> ry]
create_line_gcode(x, y, rapid) == [code |-> IF rapid THEN "G0" ELSE "G1", x |-> x, y |-> y]
create_cut_on_off_gcode(cut_on) == [code |-> IF cut_on THEN "M3 $0" ELSE "M5 $-1"]
create_kerf_off_gcode == [code |-> "G40"]
create_comment(txt) == [code |-> "(" \o txt \o ")"]
DEBUG_COMMENTS == FALSE
create_debug_comment(txt) == [code |-> IF DEBUG_COMMENTS THEN txt ELSE "None"]
create_dwell(t) == [code |-> "G4 P", t |-> t]
create_feed(r) == [code |-> "F", r |-> r]
create_absolute_arc == [code |-> "G90.1"]
create_relative_arc == [code |-> "G91.1"]
create_thc_off_synch == [code |-> "M62 P2"]
create_thc_on_synch == [code |-> "M63 P2"]
create_marking_voltage_wait == [code |-> "M66 P3 L3 Q10"]

\* HoleBuilder.plasma_mark: the elements; feed_rate is the parent's active
\* feed rate, None included
plasma_mark(feed_rate, x, y, time) ==
  <<create_comment("---- Marking Start ----"),
    create_feed(feed_rate),
    create_line_gcode(Num(x), Num(y), TRUE),
    create_cut_on_off_gcode(TRUE),
    create_line_gcode(Num(x + 1), Num(y), FALSE),
    create_marking_voltage_wait,
    create_dwell(time),
    create_cut_on_off_gcode(FALSE),
    create_comment("---- Marking End ----")>>

\* the elements of one sector without the torch-off of the third sector
sector_elements_NoTorchOff(sector_num, sang, cx, cy, r, feeds) ==
  <<create_debug_comment("Settings"),
    create_debug_comment("Arc length"),
    create_comment("Sector number: " \o DigitChars[sector_num + 1])>>
  \o (IF sector_num = 0 THEN <<create_feed(Some(feeds.arc1))>>
      ELSE IF sector_num = 1 THEN <<create_feed(Some(feeds.arc2))>>
      ELSE IF sector_num = 2 THEN <<create_feed(Some(feeds.arc3))>>
      ELSE <<>>)
  \o <<create_ccw_arc_gcode(circle_x(cx, r, sang), circle_y(cy, r, sang), Num(cx), Num(cy))>>

\* the elements of one sector of the hole body (sector_num counts from 0)
sector_elements(sector_num, sang, cx, cy, r, feeds) ==
  <<create_debug_comment("Settings"),
    create_debug_comment("Arc length"),
    create_comment("Sector number: " \o DigitChars[sector_num + 1])>>
  \o (IF sector_num = 0 THEN <<create_feed(Some(feeds.arc1))>>
      ELSE IF sector_num = 1 THEN <<create_feed(Some(feeds.arc2))>>
      ELSE IF sector_num = 2
      THEN <<create_cut_on_off_gcode(FALSE), create_feed(Some(feeds.arc3))>>
      ELSE <<>>)
  \o <<create_ccw_arc_gcode(circle_x(cx, r, sang), circle_y(cy, r, sang), Num(cx), Num(cy))>>

RECURSIVE hole_sectors(_, _, _, _, _, _)
hole_sectors(sector_num, split_angles, cx, cy, r, feeds) ==
  IF sector_num >= Len(split_angles) THEN <<>>
  ELSE sector_elements(sector_num, split_angles[sector_num + 1], cx, cy, r, feeds)
       \o hole_sectors(sector_num + 1, split_angles, cx, cy, r, feeds)

\* the lead-in of plasma_hole: the elements from the rapid to the hole centre
\* to the move that reaches the first point of the hole
leadin_elements(x, y, r, kc, kerf, leadin_radius, arc_x0, arc_y0, gap) ==
  IF leadin_radius < 0 \/ leadin_radius >= r - kc
  THEN <<create_debug_comment("too small"),
         create_line_gcode(Num(x), Num(y), TRUE),
         create_kerf_off_gcode,
         create_cut_on_off_gcode(TRUE),
         create_line_gcode(Num(arc_x0), Num(arc_y0), FALSE)>>
  ELSE IF 2 * leadin_radius <= r
  THEN <<create_debug_comment("Half circle radius"),
         create_debug_comment("Half circle radius. Centre-to-Leadin-Gap")>>
       \o (IF gap < kerf
           THEN <<create_debug_comment("... single arc"),
                  create_line_gcode(Num(x), Num(y), TRUE),
                  create_kerf_off_gcode,
                  create_cut_on_off_gcode(TRUE),
                  create_line_gcode(Num(x), Num(arc_y0 - 2 * leadin_radius), FALSE),
                  create_ccw_arc_gcode(Num(arc_x0), Num(arc_y0),
                                       Num(x), Num(arc_y0 - leadin_radius))>>
           ELSE <<create_debug_comment("... double back arc"),
                  create_line_gcode(Num(x), Num(y), TRUE),
                  create_kerf_off_gcode,
                  create_cut_on_off_gcode(TRUE),
                  create_cw_arc_gcode(Num(x), Num(y + gap), Num(x), Num(y + gap \div 2)),
                  create_ccw_arc_gcode(Num(arc_x0), Num(arc_y0),
                                       Num(x), Num(arc_y0 - leadin_radius))>>)
  ELSE <<create_debug_comment("Greater then Half circle radius"),
         create_debug_comment("Half circle radius. Centre-to-Leadin-Gap")>>
       \o (IF gap < kerf
           THEN <<create_debug_comment("... single arc"),
                  create_line_gcode(Num(x), Num(y), TRUE),
                  create_kerf_off_gcode,
                  create_cut_on_off_gcode(TRUE),
                  create_line_gcode(Num(x), Num(y - gap), FALSE),
                  create_ccw_arc_gcode(Num(arc_x0), Num(arc_y0),
                                       Num(x), Num(arc_y0 - leadin_radius))>>
           ELSE <<create_debug_comment("... double back arc"),
                  create_line_gcode(Num(x), Num(y), TRUE),
                  create_kerf_off_gcode,
                  create_cut_on_off_gcode(TRUE),
                  create_ccw_arc_gcode(Num(x), Num(y - gap), Num(x), Num(y - gap \div 2)),
                  create_ccw_arc_gcode(Num(arc_x0), Num(arc_y0),
                                       Num(x), Num(arc_y0 - leadin_radius))>>)

\* self.torch_on that is true whatever create_cut_on_off_gcode was called with
torch_on_after_Stuck(es) == TRUE

\* self.torch_on after a sequence of elements: what the last
\* create_cut_on_off_gcode call set
RECURSIVE torch_on_after(_)
torch_on_after(es) ==
  IF es = <<>> THEN FALSE
  ELSE IF es[Len(es)].code = "M3 $0" THEN TRUE
  ELSE IF es[Len(es)].code = "M5 $-1" THEN FALSE
  ELSE torch_on_after(SubSeq(es, 1, Len(es) - 1))

\* HoleBuilder.plasma_hole: line is the arc's CodeLine, feed_rate the parent's
\* active feed rate, percent the four HAL feed percentages, splits the segment
\* lengths.  raised: the TypeError of a None feed rate, the ZeroDivisionError
\* of a zero radius.  Halves are taken to the thousandth.
plasma_hole(line, feed_rate, percent, x, y, d, kerf, leadin_radius, splits, hidef) ==
  LET fr == Val(feed_rate)
      feeds == [arc1 |-> (fr * percent.arc1) \div 100,
                arc2 |-> (fr * percent.arc2) \div 100,
                arc3 |-> (fr * percent.arc3) \div 100,
                leadin |-> (fr * percent.leadin) \div 100]
      g40 == line.active_g_modal_groups[7] = "G40"
      r0 == d \div 2
      kc == kerf \div 2
      split_angles == [n \in 1..Len(splits) |-> [k |-> splits[n].k, a |-> splits[n].a, r0 |-> r0]]
      r == IF g40 THEN r0 ELSE r0 - kc
      lr == IF g40 THEN leadin_radius ELSE leadin_radius - kc
      arc_x0 == x
      arc_y0 == y + r
      centre_to_leadin_diam_gap == Abs(arc_y0 - (2 * lr) - y)
      head ==
        (IF line.active_g_modal_groups[4] = "G91.1" THEN <<create_absolute_arc>> ELSE <<>>)
        \o (IF hidef THEN <<create_comment("---- HiDef Hole ----")>> ELSE <<>>)
        \o <<create_debug_comment("Hole Center"),
             create_debug_comment("First point on hole"),
             create_debug_comment("Leadin..."),
             create_feed(Some(feeds.leadin)),
             create_thc_off_synch>>
        \o leadin_elements(x, y, r, kc, kerf, lr, arc_x0, arc_y0, centre_to_leadin_diam_gap)
        \o <<create_comment("Hole...")>>
      body ==
        IF Len(split_angles) > 0
        THEN hole_sectors(0, split_angles, x, y, r, feeds)
        ELSE <<create_ccw_arc_gcode(Num(x - r), Num(y), Num(x), Num(y)),
               create_ccw_arc_gcode(Num(x), Num(y - r), Num(x), Num(y)),
               create_ccw_arc_gcode(Num(x + r), Num(y), Num(x), Num(y)),
               create_ccw_arc_gcode(Num(x), Num(y + r), Num(x), Num(y))>>
      closeout ==
        (IF torch_on_after(head \o body) THEN <<create_cut_on_off_gcode(FALSE)>> ELSE <<>>)
        \o <<create_thc_on_synch, create_feed(Some(fr))>>
        \o (IF line.active_g_modal_groups[4] = "G91.1" THEN <<create_relative_arc>> ELSE <<>>)
  IN IF IsNone(feed_rate) THEN [raised |-> TRUE, elements |-> <<>>]
     ELSE IF kc > r0
     THEN [raised |-> FALSE,
           elements |-> <<create_comment("1/2 Kerf > Hole Radius.  Smart Hole processing skipped.")>>]
     ELSE IF Len(splits) > 0 /\ r0 = 0 THEN [raised |-> TRUE, elements |-> <<>>]
     ELSE [raised |-> FALSE, elements |-> head \o body \o closeout]

(***************************************************************************)
(* PreProcessor.flag_holes                                                 *)
(***************************************************************************)
\* value / UNITS_PER_MM, to the thousandth
per_unit(value, units) == (value * 10) \div units

\* the locals flag_holes reads from HAL before its loop
flag_holes_locals(hal, units) ==
  [thickness_ratio |-> hal.hole_thickness_ratio,
   max_hole_size |-> per_unit(hal.max_hole_size, units),
   arc2_distance |-> per_unit(hal.arc2_distance, units),
   arc3_distance |-> per_unit(hal.arc3_distance, units),
   leadin_radius |-> per_unit(hal.leadin_radius, units),
   kerf_width |-> per_unit(hal.kirfwidth, units),
   torch_off_distance_before_zero |-> per_unit(hal.torch_off_distance, units),
   small_hole_detect |-> hal.small_hole_detect,
   small_hole_size |-> IF hal.small_hole_detect
                       THEN per_unit(hal.small_hole_threshold, units) ELSE 0,
   marking_delay |-> hal.spot_delay,
   percent |-> [arc1 |-> hal.arc1_percent, arc2 |-> hal.arc2_percent,
                arc3 |-> hal.arc3_percent, leadin |-> hal.leadin_percent]]

NoLocals ==
  flag_holes_locals(
    [hole_thickness_ratio |-> 0, max_hole_size |-> 0, arc2_distance |-> 0,
     arc3_distance |-> 0, leadin_radius |-> 0, kirfwidth |-> 0,
     torch_off_distance |-> 0, small_hole_detect |-> FALSE,
     small_hole_threshold |-> 0, spot_delay |-> 0, arc1_percent |-> 0,
     arc2_percent |-> 0, arc3_percent |-> 0, leadin_percent |-> 0], MmUnits)

NoGeom ==
  [endx |-> 0, endy |-> 0, centre_x |-> 0, centre_y |-> 0, radius |-> 0,
   diameter |-> 0, hidef |-> FALSE, branch |-> "none"]

\* the test "line.command[0] == 'G' and line.command[1] == 3" of a 2-tuple
IsG3(line) ==
  line.command.len = 2 /\ line.command.letter = "G" /\ line.command.num = 3

\* the loop "for j in range(j, -1, -1)" that looks for the last X or Y: the
\* new value of lastx or lasty; raised is the KeyError of a line that has the
\* axis but no group 1 in its snapshot
RECURSIVE scan_last(_, _, _, _)
scan_last(ps, j, axis, last) ==
  IF j < 1 THEN [raised |-> FALSE, last |-> last]
  ELSE IF has_key(ps[j].params, axis)
  THEN IF 1 \notin DOMAIN ps[j].active_g_modal_groups
       THEN [raised |-> TRUE, last |-> last]
       ELSE IF ps[j].active_g_modal_groups[1] \in {"G0", "G1", "G2", "G3"}
       THEN [raised |-> FALSE, last |-> Some(param(ps[j].params, axis))]
       ELSE scan_last(ps, j - 1, axis, last)
  ELSE scan_last(ps, j - 1, axis, last)

\* closed_loop with the test "endx == lastx" alone
closed_loop_XOnly(line, lx, ly) ==
  LET hasx == has_key(line.params, "X")
      hasy == has_key(line.params, "Y")
      endx == IF hasx THEN Some(param(line.params, "X")) ELSE lx
      endy == IF hasy THEN Some(param(line.params, "Y")) ELSE ly
  IN IF IsNone(lx) \/ IsNone(ly)
     THEN [raised |-> TRUE, is_hole |-> FALSE, endx |-> 0, endy |-> 0]
     ELSE [raised |-> FALSE, is_hole |-> endx = lx, endx |-> Val(endx), endy |-> Val(endy)]

\* the test "endx == lastx and endy == lasty" with what precedes it: raised
\* is the UnboundLocalError of reading lastx or lasty before any line set it
closed_loop(line, lx, ly) ==
  LET hasx == has_key(line.params, "X")
      hasy == has_key(line.params, "Y")
      endx == IF hasx THEN Some(param(line.params, "X")) ELSE lx
      endy == IF hasy THEN Some(param(line.params, "Y")) ELSE ly
  IN IF IsNone(lx) \/ (~hasy /\ IsNone(ly)) THEN [raised |-> TRUE, is_hole |-> FALSE, endx |-> 0, endy |-> 0]
     ELSE IF endx # lx THEN [raised |-> FALSE, is_hole |-> FALSE, endx |-> Val(endx), endy |-> 0]
     ELSE IF IsNone(ly) THEN [raised |-> TRUE, is_hole |-> FALSE, endx |-> Val(endx), endy |-> 0]
     ELSE [raised |-> FALSE, is_hole |-> endy = ly, endx |-> Val(endx), endy |-> Val(endy)]

Remove(ps, j) == [ps EXCEPT ![j].type = "REMOVE"]

\* the backward loop that marks lines for removal, from line j down
RECURSIVE remove_back(_, _, _)
remove_back(ps, j, found_m3) ==
  IF j < 1 THEN ps
  ELSE LET prev == ps[j]
           is_m3 == startswith(TokenChars(prev.token), <<"M", "3">>)
           found == found_m3 \/ is_m3
           ps1 == IF is_m3 \/ ~found THEN Remove(ps, j) ELSE ps
       IN IF 1 \notin DOMAIN prev.active_g_modal_groups THEN ps1
          ELSE IF prev.active_g_modal_groups[1] # "G0" /\ found THEN ps1
          ELSE IF prev.active_g_modal_groups[1] = "G0"
          THEN remove_back(Remove(ps1, j), j - 1, found)
          ELSE remove_back(ps1, j - 1, found)

\* the forward loop that marks lines for removal, from line j up
RECURSIVE remove_forward(_, _)
remove_forward(ps, j) ==
  IF j > Len(ps) THEN ps
  ELSE IF startswith(TokenChars(ps[j].token), <<"M", "5">>) THEN Remove(ps, j)
  ELSE remove_forward(Remove(ps, j), j + 1)

\* "scan forward and back to mark the M3 and M5 as Commands.REMOVE" around line n
mark_removed(ps, n) == remove_forward(remove_back(ps, n - 1, FALSE), n + 1)

\* the branch flag_holes takes for a closed arc
hole_branch(diameter, hidef, locals, thickness, units) ==
  IF diameter < locals.small_hole_size /\ locals.small_hole_detect THEN "mark"
  ELSE IF hidef THEN "hidef"
  ELSE IF IsNone(thickness) THEN "raise"
  ELSE IF \/ diameter <= Val(thickness) * locals.thickness_ratio
          \/ diameter <= per_unit(locals.max_hole_size, units)
  THEN "standard"
  ELSE "none"

\* main() that skips flag_holes and yet marks every arc for removal
main_skip_holes_MarkArcs ==
  /\ pc = "parse"
  /\ line_num = Len(orig_gcode)
  /\ pc' = "dump"
  /\ parsed' = [n \in 1..Len(parsed) |->
                  IF IsG3(parsed[n]) THEN [parsed[n] EXCEPT !.type = "REMOVE"]
                  ELSE parsed[n]]
  /\ UNCHANGED <<orig_gcode, line_num, active_g_modal_grps, processVars,
                 UNITS_PER_MM, PRECISION, holeVars, dumped, stdout, stderr>>

\* main(): hole detection is disabled
main_skip_holes ==
  /\ pc = "parse"
  /\ line_num = Len(orig_gcode)
  /\ pc' = "dump"
  /\ UNCHANGED <<orig_gcode, parsed, line_num, active_g_modal_grps, processVars,
                 UNITS_PER_MM, PRECISION, holeVars, dumped, stdout, stderr>>

\* main(): hole detection is enabled; the head of flag_holes reads HAL
flag_holes_begin ==
  /\ pc = "parse"
  /\ line_num = Len(orig_gcode)
  /\ \E hal \in HalConfigs : fh' = flag_holes_locals(hal, UNITS_PER_MM)
  /\ i' = 0
  /\ pc' = "flag_holes"
  /\ UNCHANGED <<orig_gcode, parsed, line_num, active_g_modal_grps, processVars,
                 UNITS_PER_MM, PRECISION, lastx, lasty, geom, hidef_hole, hidef_ret,
                 dumped, stdout, stderr>>

\* a turn of the loop of flag_holes for a line that is not a G3
flag_holes_next ==
  /\ pc = "flag_holes"
  /\ i < Len(parsed)
  /\ ~IsG3(parsed[i + 1])
  /\ i' = i + 1
  /\ UNCHANGED <<orig_gcode, parsed, line_num, active_g_modal_grps, processVars,
                 UNITS_PER_MM, PRECISION, pc, fh, lastx, lasty, geom, hidef_hole,
                 hidef_ret, dumped, stdout, stderr>>

\* a turn of the loop of flag_holes for a G3, up to "if line.is_hole:"
flag_holes_scan ==
  /\ pc = "flag_holes"
  /\ i < Len(parsed)
  /\ IsG3(parsed[i + 1])
  /\ LET sx == scan_last(parsed, i, "X", lastx)
         sy == scan_last(parsed, i, "Y", lasty)
         cl == closed_loop(parsed[i + 1], sx.last, sy.last)
     IN IF sx.raised
        THEN pc' = "aborted" /\ UNCHANGED <<parsed, i, lastx, lasty, geom>>
        ELSE IF sy.raised
        THEN pc' = "aborted" /\ lastx' = sx.last /\ UNCHANGED <<parsed, i, lasty, geom>>
        ELSE /\ lastx' = sx.last
             /\ lasty' = sy.last
             /\ IF cl.raised
                THEN pc' = "aborted" /\ UNCHANGED <<parsed, i, geom>>
                ELSE /\ parsed' = [parsed EXCEPT ![i + 1].is_hole = cl.is_hole]
                     /\ geom' = [NoGeom EXCEPT !.endx = cl.endx, !.endy = cl.endy]
                     /\ IF cl.is_hole
                        THEN pc' = "hole" /\ i' = i
                        ELSE pc' = pc /\ i' = i + 1
  /\ UNCHANGED <<orig_gcode, line_num, active_g_modal_grps, processVars,
                 UNITS_PER_MM, PRECISION, fh, hidef_hole, hidef_ret, dumped, stdout, stderr>>

\* the rest of the turn for a closed arc: the body of "if line.is_hole:"
flag_holes_replace ==
  /\ pc = "hole"
  /\ LET line == parsed[i + 1]
         keys == has_key(line.params, "I") /\ has_key(line.params, "J")
         centre_x == geom.endx + param(line.params, "I")
         centre_y == geom.endy + param(line.params, "J")
         radius == line_length(centre_x, centre_y, geom.endx, geom.endy)
         diameter == 2 * Abs(radius)
         hidef_data == hidef_holes(active_machineid, active_materialid, active_thicknessid)
         hh == HiDefHole(hidef_data)
         look(a) == get_attribute(hh, a, diameter)
         hidef == Len(hidef_data) > 0 /\ \A a \in HiDefAttributes : ~IsNone(look(a))
         branch == hole_branch(diameter, hidef, fh, active_thickness, UNITS_PER_MM)
         hidef_arc1 == LenSub(LenSub(Circumferance, Val(look("speed2dist"))), Val(look("offdistance")))
         hidef_arc2 == LenAdd(hidef_arc1, Val(look("speed2dist")))
         hidef_arc3 == LenSubLen(LenAdd(hidef_arc2, Val(look("overcut"))), Circumferance)
         this_hole_leadin_radius ==
           IF fh.leadin_radius = 0
           THEN radius - (radius \div 4) - (fh.kerf_width \div 2)
           ELSE fh.leadin_radius
         arc1_distance == LenSub(LenSub(Circumferance, fh.arc2_distance),
                                 fh.torch_off_distance_before_zero)
         arc2_from_zero == LenAdd(arc1_distance, fh.arc2_distance)
         arc3_from_zero == LenSubLen(LenAdd(arc2_from_zero, fh.arc3_distance), Circumferance)
         built ==
           IF branch = "mark"
           THEN [raised |-> FALSE,
                 elements |-> plasma_mark(active_feedrate, centre_x, centre_y, fh.marking_delay)]
           ELSE IF branch = "hidef"
           THEN plasma_hole(line, active_feedrate, fh.percent, centre_x, centre_y, diameter,
                            Val(look("kerf")), Val(look("leadinradius")),
                            <<hidef_arc1, hidef_arc2, hidef_arc3>>, TRUE)
           ELSE plasma_hole(line, active_feedrate, fh.percent, centre_x, centre_y, diameter,
                            fh.kerf_width, this_hole_leadin_radius,
                            <<arc1_distance, arc2_from_zero, arc3_from_zero>>, FALSE)
     IN IF ~keys
        THEN pc' = "aborted" /\ UNCHANGED <<parsed, i, geom, hidef_hole, hidef_ret>>
        ELSE /\ geom' = [geom EXCEPT !.centre_x = centre_x, !.centre_y = centre_y,
                                     !.radius = radius, !.diameter = diameter,
                                     !.hidef = hidef, !.branch = branch]
             /\ IF Len(hidef_data) > 0
                THEN /\ hidef_hole' = hh
                     /\ hidef_ret' = IF hh.raised THEN hidef_ret
                                     ELSE [attribute |-> "overcut", holesize |-> diameter,
                                           value |-> look("overcut")]
                ELSE UNCHANGED <<hidef_hole, hidef_ret>>
             /\ IF (Len(hidef_data) > 0 /\ hh.raised) \/ branch = "raise"
                THEN pc' = "aborted" /\ UNCHANGED <<parsed, i>>
                ELSE IF branch = "none"
                THEN /\ parsed' = [parsed EXCEPT ![i + 1].is_hole = FALSE,
                                                 ![i + 1].hole_builder = None]
                     /\ pc' = "flag_holes"
                     /\ i' = i + 1
                ELSE IF built.raised
                THEN pc' = "aborted" /\ UNCHANGED <<parsed, i>>
                ELSE /\ parsed' = mark_removed(
                                    [parsed EXCEPT ![i + 1].hole_builder = Some(built.elements)],
                                    i + 1)
                     /\ pc' = "flag_holes"
                     /\ i' = i + 1
  /\ UNCHANGED <<orig_gcode, line_num, active_g_modal_grps, processVars,
                 UNITS_PER_MM, PRECISION, fh, lastx, lasty, dumped, stdout, stderr>>

\* the loop of flag_holes is over
flag_holes_end ==
  /\ pc = "flag_holes"
  /\ i = Len(parsed)
  /\ pc' = "dump"
  /\ UNCHANGED <<orig_gcode, parsed, line_num, active_g_modal_grps, processVars,
                 UNITS_PER_MM, PRECISION, holeVars, dumped, stdout, stderr>>

(***************************************************************************)
(* HiDefHole on its own: a table is built and its attributes are looked up *)
(***************************************************************************)
hidef_lookup ==
  /\ pc = "hidef"
  /\ \E attribute \in HiDefAttributes, holesize \in HoleSizes :
       hidef_ret' = [attribute |-> attribute, holesize |-> holesize,
                     value |-> get_attribute(hidef_hole, attribute, holesize)]
  /\ UNCHANGED <<orig_gcode, parsed, line_num, active_g_modal_grps, processVars,
                 UNITS_PER_MM, PRECISION, pc, fh, i, lastx, lasty, geom, hidef_hole,
                 dumped, stdout, stderr>>

(***************************************************************************)
(* Specifications                                                          *)
(***************************************************************************)
NoReturn == [attribute |-> "", holesize |-> 0, value |-> None]

InitRun ==
  /\ parsed = <<>>
  /\ line_num = 0
  /\ active_g_modal_grps = <<>>
  /\ active_cutchart = None
  /\ active_feedrate = None
  /\ active_thickness = None
  /\ active_machineid = None
  /\ active_thicknessid = None
  /\ active_materialid = None
  /\ \E inch \in BOOLEAN :
       /\ UNITS_PER_MM = IF inch THEN InchUnits ELSE MmUnits
       /\ PRECISION = IF inch THEN 6 ELSE 4
  /\ fh = NoLocals
  /\ i = 0
  /\ lastx = None
  /\ lasty = None
  /\ geom = NoGeom
  /\ hidef_ret = NoReturn
  /\ dumped = 0
  /\ stdout = <<>>
  /\ stderr = <<>>

\* the state after PreProcessor.__init__ has read the file
Init ==
  /\ InitRun
  /\ orig_gcode \in Programs
  /\ hidef_hole = HiDefHole(<<>>)
  /\ pc = "start"

Next ==
  \/ parse_begin
  \/ parse_line
  \/ main_skip_holes
  \/ flag_holes_begin
  \/ flag_holes_next
  \/ flag_holes_scan
  \/ flag_holes_replace
  \/ flag_holes_end
  \/ dump_parsed
  \/ main_exit

Spec == Init /\ [][Next]_vars

\* the state after HiDefHole.__init__ has built a table
InitHiDef ==
  /\ InitRun
  /\ orig_gcode = <<>>
  /\ \E t \in HiDefTables : hidef_hole = HiDefHole(t)
  /\ pc = "hidef"

NextHiDef == hidef_lookup

SpecHiDef == InitHiDef /\ [][NextHiDef]_vars

(***************************************************************************)
(* HoleBuilder on its own: plasma_hole is called for an arc line           *)
(***************************************************************************)
\* the arguments of the calls: diameters 2 and 10, kerfs 1 and 2, the
\* lead-in radii of the pins and the default of a hole of diameter 10, and
\* from no segment breakpoint to four
BuilderDiameters == {2 * Scale, 10 * Scale}
BuilderKerfs == {Scale, 2 * Scale}
BuilderLeadins == LeadinRadii \cup {(13 * Scale) \div 4}
BuilderBreaks ==
  <<LenSub(Circumferance, 2 * Scale), LenSub(Circumferance, Scale),
    [k |-> 0, a |-> 0], [k |-> 0, a |-> Scale]>>
BuilderSplits == {SubSeq(BuilderBreaks, 1, n) : n \in 0..Len(BuilderBreaks)}

\* the arc line of the calls, with the modal snapshot it was parsed under
BuilderLine(comp, arcmode) ==
  [NewCodeLine(Text.G3) EXCEPT
     !.type = "MOVE_ARC", !.token = "G3", !.is_hole = TRUE,
     !.active_g_modal_groups = (1 :> "G3") @@ (4 :> arcmode) @@ (7 :> comp)]

\* "line.hole_builder.plasma_hole(...)": b is what the call built
builder_keep(b) ==
  IF b.raised THEN pc' = "aborted" /\ UNCHANGED parsed
  ELSE /\ pc' = pc
       /\ parsed' = [parsed EXCEPT ![1].hole_builder = Some(b.elements)]

\* a call of HoleBuilder.plasma_hole for the centre (0, 0)
builder_plasma_hole ==
  /\ pc = "builder"
  /\ \E d \in BuilderDiameters, kerf \in BuilderKerfs, leadin_radius \in BuilderLeadins,
        splits \in BuilderSplits, hidef \in BOOLEAN :
       builder_keep(plasma_hole(parsed[1], active_feedrate, BaseHalPercent, 0, 0, d,
                                kerf, leadin_radius, splits, hidef))
  /\ UNCHANGED <<orig_gcode, line_num, active_g_modal_grps, processVars,
                 UNITS_PER_MM, PRECISION, holeVars, dumped, stdout, stderr>>

\* the state before the calls: an arc line parsed under one of the cutter
\* compensation codes and one of the arc modes, and an active feed rate
InitBuilder ==
  /\ orig_gcode = readlines(<<Text.G3>>)
  /\ \E comp \in {"G40", "G41"}, arcmode \in {"G91.1", "G90.1"} :
       parsed = <<BuilderLine(comp, arcmode)>>
  /\ line_num = 1
  /\ active_g_modal_grps = <<>>
  /\ active_cutchart = Some(1)
  /\ active_feedrate = Some(CutChart[1].cut_speed)
  /\ active_thickness = Some(CutChart[1].thickness)
  /\ active_machineid = Some(CutChart[1].machineid)
  /\ active_thicknessid = Some(CutChart[1].thicknessid)
  /\ active_materialid = Some(CutChart[1].materialid)
  /\ UNITS_PER_MM = MmUnits
  /\ PRECISION = 4
  /\ fh = NoLocals
  /\ i = 0
  /\ lastx = None
  /\ lasty = None
  /\ geom = NoGeom
  /\ hidef_hole = HiDefHole(<<>>)
  /\ hidef_ret = NoReturn
  /\ dumped = 0
  /\ stdout = <<>>
  /\ stderr = <<>>
  /\ pc = "builder"

NextBuilder == builder_plasma_hole

SpecBuilder == InitBuilder /\ [][NextBuilder]_vars

(***************************************************************************)
(* Properties                                                              *)
(***************************************************************************)
\* the program line n as written, without its line end
InputLine(n) == SubSeq(orig_gcode[n], 1, Len(orig_gcode[n]) - 1)

\* what the output holds for line n of the program
OutputOf(n) == SelectSeq(stdout, LAMBDA o : o.src = n)

\* the diagnostics written for line n of the program
DiagnosticsOf(n) == Len(SelectSeq(stderr, LAMBDA d : d = n))

\* the text is a tool word on its own: T and a number
IsToolWord(t) == Len(t) >= 2 /\ t[1] = "T" /\ \A k \in 2..Len(t) : IsDigit(t[k])
ToolWordId(t) == DigitsVal(Drop(t, 1))

\* the executable part of an output text: what precedes a comment
Executable(text) ==
  LET p == find_char(text, {";", "("})
  IN IF p = 0 THEN text ELSE SubSeq(text, 1, p - 1)

\* line n of the program is a tool word with an id the database does not have
UnknownToolLine(n) ==
  LET t == strip(InputLine(n))
  IN IsToolWord(t) /\ cut_by_id(ToolWordId(t)) = <<>>

\* C1: a standalone tool line Tn whose id has no record in the database is
\* written to the output as one comment that begins with the error marker,
\* so that no T word and no motion is left to execute
C1_UnknownToolIsComment ==
  \A n \in 1..dumped :
    UnknownToolLine(n) =>
      /\ Len(OutputOf(n)) = 1
      /\ OutputOf(n)[1].kind = "text"
      /\ startswith(OutputOf(n)[1].text, InvalidCutchartText)
      /\ Executable(OutputOf(n)[1].text) = <<>>

\* the places of text where a cutter compensation code G41, G42, G41.1 or
\* G42.1 stands as a word
CompCodeAt(text, p) ==
  /\ p + 2 <= Len(text)
  /\ upper_char(text[p]) = "G" /\ text[p + 1] = "4" /\ text[p + 2] \in {"1", "2"}
  /\ (p = 1 \/ IsSpace(text[p - 1]))
  /\ (p + 3 > Len(text) \/ ~IsDigit(text[p + 3]))
CompCodes(text) == {p \in 1..Len(text) : CompCodeAt(text, p)}

\* C2: a line that holds cutter compensation codes leaves none of them in the
\* executable output, and one diagnostic is written for each of them
C2_NoCutterCompInOutput ==
  \A n \in 1..dumped :
    LET codes == CompCodes(Executable(InputLine(n)))
    IN codes # {} =>
         /\ \A k \in 1..Len(OutputOf(n)) :
              OutputOf(n)[k].kind = "text" => CompCodes(Executable(OutputOf(n)[k].text)) = {}
         /\ DiagnosticsOf(n) = Cardinality(codes)

\* C3: whatever the lines of the program hold, the run goes through the
\* three passes; no line aborts it
C3_RunCompletes == pc # "aborted"

\* the lines before line n that set the axis while group 1 held a motion code
MotionLines(ps, n, axis) ==
  {j \in 1..(n - 1) :
     /\ has_key(ps[j].params, axis)
     /\ 1 \in DOMAIN ps[j].active_g_modal_groups
     /\ ps[j].active_g_modal_groups[1] \in {"G0", "G1", "G2", "G3"}}

\* the pre-arc cursor of line n on one axis: the value the nearest of these
\* lines gave the axis, None when there is no such line
Cursor(ps, n, axis) ==
  LET J == MotionLines(ps, n, axis)
  IN IF J = {} THEN None
     ELSE Some(param(ps[CHOOSE j \in J : \A k \in J : k <= j].params, axis))

\* the implied endpoint of line n on one axis: its own word, or the cursor
Endpoint(ps, n, axis) ==
  IF has_key(ps[n].params, axis) THEN Some(param(ps[n].params, axis))
  ELSE Cursor(ps, n, axis)

\* the arc of line n ends where it starts
EndsAtCursor(ps, n) ==
  /\ Endpoint(ps, n, "X") = Cursor(ps, n, "X")
  /\ Endpoint(ps, n, "Y") = Cursor(ps, n, "Y")

\* the distance between two points
Distance(x1, y1, x2, y2) == sqrt((x1 - x2) * (x1 - x2) + (y1 - y2) * (y1 - y2))

\* C4: the turn of the hole detection for a G3 line flags the line as a
\* closed loop exactly when its implied endpoint equals the pre-arc cursor on
\* both axes; the centre of a closed loop is the cursor plus (I, J) and its
\* diameter twice the distance from the centre to the cursor, 10 for
\* G3 X0 Y0 I5 J0 after G1 X0 Y0
C4_ClosedLoopGeometry ==
  /\ [][(pc = "flag_holes" /\ pc' # "aborted" /\ i < Len(parsed) /\ IsG3(parsed[i + 1]))
          => (parsed'[i + 1].is_hole <=> EndsAtCursor(parsed, i + 1))]_vars
  /\ [][(pc = "hole" /\ pc' # "aborted")
          => LET cx == Val(Cursor(parsed, i + 1, "X"))
                 cy == Val(Cursor(parsed, i + 1, "Y"))
             IN /\ geom'.centre_x = cx + param(parsed[i + 1].params, "I")
                /\ geom'.centre_y = cy + param(parsed[i + 1].params, "J")
                /\ geom'.diameter = 2 * Distance(geom'.centre_x, geom'.centre_y, cx, cy)
                /\ (i >= 1 /\ InputLine(i) = Text.G1X0Y0 /\ InputLine(i + 1) = Text.G3
                      => geom'.diameter = 10 * Scale)]_vars

\* C4 happens: the arc G3 X0 Y0 I5 J0 after G1 X0 Y0 has been measured
C4_Witness ==
  /\ pc = "flag_holes"
  /\ i >= 2
  /\ InputLine(i) = Text.G3
  /\ InputLine(i - 1) = Text.G1X0Y0
  /\ geom.diameter = 10 * Scale
  /\ geom.centre_x = 5 * Scale

\* every HiDef attribute resolves for a diameter: the table of the active
\* process has two adjacent rows whose hole sizes hold the diameter
HiDefResolves(diameter) ==
  LET rows == hidef_holes(active_machineid, active_materialid, active_thicknessid)
  IN \E n \in 2..Len(rows) :
       rows[n - 1].hole_size <= diameter /\ diameter <= rows[n].hole_size

\* the strategy the priority rule gives a closed arc of a diameter, with the
\* configured sizes in the units of the program
ExpectedStrategy(diameter) ==
  IF fh.small_hole_detect /\ diameter < fh.small_hole_size THEN "mark"
  ELSE IF HiDefResolves(diameter) THEN "hidef"
  ELSE IF \/ diameter <= Val(active_thickness) * fh.thickness_ratio
          \/ diameter <= fh.max_hole_size
  THEN "standard"
  ELSE "none"

\* the strategy a line shows: what was attached to it
ObservedStrategy(l) ==
  IF IsNone(l.hole_builder) THEN "none"
  ELSE IF Val(l.hole_builder)[1].code = "(---- Marking Start ----)" THEN "mark"
  ELSE IF \E k \in 1..Len(Val(l.hole_builder)) :
            Val(l.hole_builder)[k].code = "(---- HiDef Hole ----)"
  THEN "hidef"
  ELSE "standard"

\* C5: a closed arc gets the mark pulse, else the HiDef hole, else the
\* standard hole, else nothing, by the priority rule, and a line that gets
\* nothing leaves every other line as it was
C5_StrategyPriority ==
  [][(pc = "hole" /\ pc' = "flag_holes")
       => /\ ObservedStrategy(parsed'[i + 1]) = ExpectedStrategy(geom'.diameter)
          /\ (ExpectedStrategy(geom'.diameter) = "none"
                => \A n \in 1..Len(parsed) : n # i + 1 => parsed'[n] = parsed[n])]_vars

\* the text is a spindle-on word (M3) or a spindle-off word (M5) with what follows
IsSpindleWord(text, digit) ==
  LET t == strip(upper(text))
  IN /\ Len(t) >= 2 /\ t[1] = "M" /\ t[2] = digit
     /\ (Len(t) = 2 \/ ~IsDigit(t[3]))

\* the codes of a mark pulse, in order
MarkPulseCodes ==
  <<"(---- Marking Start ----)", "F", "G0", "M3 $0", "G1", "M66 P3 L3 Q10", "G4 P",
    "M5 $-1", "(---- Marking End ----)">>

\* line n is a closed arc below the small hole threshold, with detection on
SmallHole(n) ==
  /\ IsG3(parsed[n])
  /\ EndsAtCursor(parsed, n)
  /\ fh.small_hole_detect
  /\ 2 * Distance(0, 0, param(parsed[n].params, "I"), param(parsed[n].params, "J"))
       < fh.small_hole_size

\* C6: the output of a small hole is the mark pulse, element by element, with
\* the rapid move to the centre of the hole and no arc; the spindle-on line
\* before it and the spindle-off line after it are not in the output
C6_MarkPulseOutput ==
  pc = "exit" =>
    \A n \in 1..Len(parsed) :
      SmallHole(n) =>
        LET es == SelectSeq(OutputOf(n), LAMBDA o : o.kind = "element")
            on == {j \in 1..(n - 1) : IsSpindleWord(InputLine(j), "3")}
            off == {j \in (n + 1)..Len(parsed) : IsSpindleWord(InputLine(j), "5")}
        IN /\ [k \in 1..Len(es) |-> es[k].e.code] = MarkPulseCodes
           /\ es[3].e.x = Num(Val(Cursor(parsed, n, "X")) + param(parsed[n].params, "I"))
           /\ es[3].e.y = Num(Val(Cursor(parsed, n, "Y")) + param(parsed[n].params, "J"))
           /\ \A j \in on : (\A k \in on : k <= j) => OutputOf(j) = <<>>
           /\ \A j \in off : (\A k \in off : j <= k) => OutputOf(j) = <<>>

\* the number of digits that follow the first character of a text
LeadingDigits(t) ==
  LET K == {k \in 0..(Len(t) - 1) : \A m \in 1..k : IsDigit(t[1 + m])}
  IN CHOOSE k \in K : \A m \in K : m <= k

\* the text is a tool line: the word T and a number, alone or before M6
IsToolLine(t) ==
  /\ Len(t) >= 2 /\ t[1] = "T" /\ LeadingDigits(t) >= 1
  /\ LET rest == strip(Drop(t, 1 + LeadingDigits(t)))
     IN rest = <<>> \/ startswith(rest, <<"M", "6">>)
ToolLineId(t) == DigitsVal(SubSeq(t, 2, 1 + LeadingDigits(t)))

\* the active process context that is the database record of an id
RecordOf(id) ==
  [cutchart |-> Some(id),
   feedrate |-> Some(CutChart[id].cut_speed),
   thickness |-> Some(CutChart[id].thickness),
   machineid |-> Some(CutChart[id].machineid),
   thicknessid |-> Some(CutChart[id].thicknessid),
   materialid |-> Some(CutChart[id].materialid)]

\* C7: parsing a tool line with a valid id makes the active process context
\* the database record of the id; parsing any other line, and every step
\* that parses no line, leaves the context as it was
C7_ActiveProcessContext ==
  /\ [][line_num' = line_num + 1
          => LET t == strip(InputLine(line_num + 1))
             IN IF IsToolLine(t) /\ ToolLineId(t) \in DOMAIN CutChart
                THEN ActiveProcess' = RecordOf(ToolLineId(t))
                ELSE ActiveProcess' = ActiveProcess]_vars
  /\ [][line_num' = line_num => ActiveProcess' = ActiveProcess]_vars

\* C7 happens: T1 has been parsed, then T9, and the context is still that of T1
C7_Witness ==
  /\ pc = "parse"
  /\ line_num = 2
  /\ InputLine(1) = Text.T1
  /\ InputLine(2) = Text.T9
  /\ ActiveProcess = RecordOf(1)

\* the text matches no pattern of the classifier and has no X or Y word with
\* a number
Unmatched(text) ==
  LET t == strip(text)
  IN /\ Len(findall_codes(strip(upper(t)), 1)) <= 1
     /\ FirstMatch(t) = 0
     /\ \A p \in 1..(Len(t) - 1) : upper_char(t[p]) \in {"X", "Y"} => ~IsNumChar(t[p + 1])

\* C8: in a program without holes, a line that matches no pattern and has no
\* X or Y word with a number is written as it was read, less its trailing
\* whitespace
C8_UnmatchedLineUnchanged ==
  \A n \in 1..dumped :
    (Unmatched(InputLine(n)) /\ \A m \in 1..Len(parsed) : ~parsed[m].is_hole)
      => OutputOf(n) = <<TextOut(n, rstrip(InputLine(n)))>>

\* the elements of a replacement that move the torch: those with an endpoint
Motions(es) == {k \in 1..Len(es) : "x" \in DOMAIN es[k]}

\* C9: in a replacement no G3 ends where the motion before it ended, so
\* that a second run finds no closed loop in the output of the first
C9_NoClosedArcInReplacement ==
  \A n \in 1..Len(parsed) :
    ~IsNone(parsed[n].hole_builder) =>
      LET es == Val(parsed[n].hole_builder)
      IN \A k \in Motions(es) : \A j \in Motions(es) :
           (es[k].code = "G3" /\ j < k /\ \A m \in Motions(es) : m < k => m <= j)
             => ~(es[j].x = es[k].x /\ es[j].y = es[k].y)

\* the row pairs of a table whose hole sizes hold a size
Bracketing(rows, size) ==
  {n \in 2..Len(rows) : rows[n - 1].hole <= size /\ size <= rows[n].hole}

\* C10: a lookup returns size * (attribute of the upper row / difference of
\* the hole sizes of the two rows) for the first pair of adjacent rows that
\* holds the size, and nothing below the first row, above the last row or
\* with fewer than two rows; lookup(kerf, 7.5) is 3.0 with the rows
\* (5, kerf 1.0) and (10, kerf 2.0)
C10_HiDefLookup ==
  hidef_ret.attribute # "" =>
    LET rows == hidef_hole.hole_list
        size == hidef_ret.holesize
        B == Bracketing(rows, size)
        n == CHOOSE n \in B : \A m \in B : n <= m
    IN /\ B # {} =>
            hidef_ret.value =
              Some((size * rows[n][hidef_ret.attribute]) \div (rows[n].hole - rows[n - 1].hole))
       /\ (Len(rows) < 2 \/ size < rows[1].hole \/ size > rows[Len(rows)].hole)
            => hidef_ret.value = None
       /\ B = {} => hidef_ret.value = None
       /\ (/\ Len(rows) = 2
           /\ rows[1].hole = 5 * Scale /\ rows[1].kerf = Scale
           /\ rows[2].hole = 10 * Scale /\ rows[2].kerf = 2 * Scale
           /\ hidef_ret.attribute = "kerf" /\ 2 * size = 15 * Scale)
            => hidef_ret.value = Some(3 * Scale)

\* C10 happens: the kerf of a hole of 7.5 has been looked up in the table
\* (5, kerf 1.0), (10, kerf 2.0)
C10_Witness ==
  /\ pc = "hidef"
  /\ Len(hidef_hole.hole_list) = 2
  /\ hidef_hole.hole_list[1].hole = 5 * Scale /\ hidef_hole.hole_list[1].kerf = Scale
  /\ hidef_hole.hole_list[2].hole = 10 * Scale /\ hidef_hole.hole_list[2].kerf = 2 * Scale
  /\ hidef_ret = [attribute |-> "kerf", holesize |-> (15 * Scale) \div 2, value |-> Some(3 * Scale)]

\* C11: a line whose type is REMOVE when dump_parsed starts puts nothing in
\* the output, also a G3 line that another hole's scan marked and that got a
\* replacement of its own
C11_RemovedLineEmitsNothing ==
  \A n \in 1..dumped : parsed[n].type = "REMOVE" => OutputOf(n) = <<>>

\* the largest and the smallest number of a set of line numbers
Last(S) == CHOOSE j \in S : \A k \in S : k <= j
First(S) == CHOOSE j \in S : \A k \in S : j <= k

\* the spindle-on lines before line n, the spindle-off lines before and after
SpindleOnBefore(n) == {j \in 1..(n - 1) : IsSpindleWord(InputLine(j), "3")}
SpindleOffBefore(n) == {j \in 1..(n - 1) : IsSpindleWord(InputLine(j), "5")}
SpindleOffAfter(n) == {j \in (n + 1)..Len(parsed) : IsSpindleWord(InputLine(j), "5")}

\* the hole of line n has a spindle-on line of its own cut before it
OwnSpindleOn(n) ==
  /\ SpindleOnBefore(n) # {}
  /\ \A k \in SpindleOffBefore(n) : k < Last(SpindleOnBefore(n))

\* the lines in rapid mode that adjoin the spindle-on line m3 from before
RapidBefore(ps, m3) ==
  {j \in 1..(m3 - 1) :
     \A k \in j..(m3 - 1) :
       /\ ~IsSpindleWord(InputLine(k), "5")
       /\ 1 \in DOMAIN ps[k].active_g_modal_groups
       /\ ps[k].active_g_modal_groups[1] = "G0"}

\* C12: a hole that gets a replacement marks for removal the lines from the
\* spindle-on line of its cut, with the rapid lines that adjoin it, to the
\* line before it, and the lines after it up to the next spindle-off line;
\* it changes no line after that spindle-off line and no line at or before
\* the spindle-off line of the cut before
C12_RemovalWindow ==
  [][(pc = "hole" /\ pc' = "flag_holes" /\ geom'.branch # "none")
       => LET n == i + 1
              m3 == Last(SpindleOnBefore(n))
              m5 == First(SpindleOffAfter(n))
              back == (m3..(n - 1)) \cup RapidBefore(parsed, m3)
          IN /\ OwnSpindleOn(n) =>
                  \A j \in 1..(n - 1) :
                    IF j \in back THEN parsed'[j].type = "REMOVE"
                    ELSE parsed'[j] = parsed[j]
             /\ SpindleOffAfter(n) # {} =>
                  \A j \in (n + 1)..Len(parsed) :
                    IF j <= m5 THEN parsed'[j].type = "REMOVE"
                    ELSE parsed'[j] = parsed[j]
             /\ SpindleOffBefore(n) # {} =>
                  \A j \in 1..Last(SpindleOffBefore(n)) : parsed'[j] = parsed[j]]_vars

\* the text is a feed-rate line: F and a literal number, or F and a symbol
IsLiteralFeed(t) == Len(t) >= 2 /\ t[1] = "F" /\ ~IsNone(float_of(Drop(t, 1)))
IsSymbolicFeed(t) == Len(t) >= 2 /\ t[1] = "F" /\ t[2] = "#"

\* the feed rate of the process that is active when line n is read: that of
\* the nearest tool line before it with an id of the database
ActiveFeedAt(n) ==
  LET J == {j \in 1..(n - 1) :
              /\ IsToolLine(strip(InputLine(j)))
              /\ ToolLineId(strip(InputLine(j))) \in DOMAIN CutChart}
  IN IF J = {} THEN None
     ELSE Some(CutChart[ToolLineId(strip(InputLine(Last(J))))].cut_speed)

\* the number an output text gives the F word, None if the text is not F
\* and a number
FeedWritten(o) ==
  IF Len(o) = 1 /\ o[1].kind = "text" /\ Len(o[1].text) >= 2 /\ o[1].text[1] = "F"
  THEN float_of(Drop(o[1].text, 1))
  ELSE None

\* C13: a feed-rate line with a symbol is written with the feed rate of the
\* active process in place of the symbol, and a feed-rate line with a literal
\* number is written with that number, with or without an active process
C13_FeedRateOutput ==
  \A n \in 1..dumped :
    LET t == strip(InputLine(n))
    IN /\ (IsSymbolicFeed(t) /\ ~IsNone(ActiveFeedAt(n)))
            => FeedWritten(OutputOf(n)) = ActiveFeedAt(n)
       /\ IsLiteralFeed(t) => FeedWritten(OutputOf(n)) = float_of(Drop(t, 1))

\* the place of the comment "Hole..." in a replacement, 0 if it has none:
\* the element before it is the move that ends the lead-in on the first
\* point of the hole
HoleStart(es) ==
  IF \E k \in 2..Len(es) : es[k].code = "(Hole...)"
  THEN CHOOSE k \in 2..Len(es) : es[k].code = "(Hole...)"
  ELSE 0

\* the kerf and the lead-in radius flag_holes hands to the generator, for the
\* branch and the diameter in geom
KerfGiven(g) ==
  IF g.branch = "hidef" THEN Val(get_attribute(hidef_hole, "kerf", g.diameter))
  ELSE fh.kerf_width
LeadinGiven(g) ==
  IF g.branch = "hidef" THEN Val(get_attribute(hidef_hole, "leadinradius", g.diameter))
  ELSE IF fh.leadin_radius = 0
  THEN g.radius - (g.radius \div 4) - (fh.kerf_width \div 2)
  ELSE fh.leadin_radius

\* C14: the generator takes half the kerf off the hole radius and off the
\* lead-in radius when the snapshot of the arc line has G40 in group 7
\* (cutter compensation not active), and takes nothing off when cutter
\* compensation is active
C14_KerfCompensation ==
  [][(/\ pc = "hole" /\ pc' = "flag_holes"
      /\ geom'.branch \in {"standard", "hidef"}
      /\ HoleStart(Val(parsed'[i + 1].hole_builder)) # 0)
       => LET line == parsed'[i + 1]
              es == Val(line.hole_builder)
              last == es[HoleStart(es) - 1]
              off == IF line.active_g_modal_groups[7] = "G40"
                     THEN KerfGiven(geom)' \div 2 ELSE 0
          IN /\ last.y.v - geom'.centre_y = (geom'.diameter \div 2) - off
             /\ last.code = "G3" => last.y.v - last.j.v = LeadinGiven(geom)' - off]_vars

\* the code word a text begins with: G or M, a number, and a decimal part
CodeWord(text) ==
  LET u == strip(upper(text))
      n == SpanDigits(u, 2)
      m == IF n + 2 <= Len(u) /\ u[n + 2] = "." THEN SpanDigits(u, n + 3) ELSE 0
  IN IF Len(u) >= 2 /\ u[1] \in {"G", "M"} /\ n > 0
     THEN SubSeq(u, 1, 1 + n + (IF m > 0 THEN 1 + m ELSE 0))
     ELSE <<>>

\* the patterns of the classifier that are a code word
CodePatterns ==
  {tokens[k].name : k \in {k \in 1..Len(tokens) : tokens[k].k[1] \in {"G", "M"}}}

\* line n holds one command, and it is a code word
SingleCode(n) ==
  /\ Len(findall_codes(strip(upper(InputLine(n))), 1)) <= 1
  /\ CodeWord(InputLine(n)) # <<>>

\* the modal groups before line n was parsed
SnapshotBefore(n) ==
  IF n = 1 THEN (4 :> "G91.1") @@ (7 :> "G40") ELSE parsed[n - 1].active_g_modal_groups

\* C15: a line with one command is classified by a code pattern only when
\* its code word is the pattern; a line whose code word begins with a
\* shorter pattern (G17 with G1, M30 with M3, G03 with G0) does not make the
\* shorter code active in its modal snapshot and is not written as the
\* shorter code
C15_ExactCodeMatch ==
  \A n \in 1..Len(parsed) :
    SingleCode(n) =>
      LET word == CodeWord(InputLine(n))
          snap == parsed[n].active_g_modal_groups
          before == SnapshotBefore(n)
      IN /\ parsed[n].token \in CodePatterns => TokenChars(parsed[n].token) = word
         /\ \A g \in DOMAIN snap :
              (g \notin DOMAIN before \/ snap[g] # before[g]) => TokenChars(snap[g]) = word
         /\ (n <= dumped /\ parsed[n].type # "REMOVE" /\ ~parsed[n].is_hole)
              => \A k \in 1..Len(OutputOf(n)) :
                   CodeWord(OutputOf(n)[k].text) \in {<<>>, word}

\* the patterns bound to the passthrough handler: path blending, adaptive
\* feed, spindle on and off, material change, digital input wait, arc mode
PassthroughPatterns == {"G64", "M52", "M3", "M5", "M190", "M66", "G91.1", "G90.1"}

\* C16: a line one of these patterns classifies, and that no hole marked for
\* removal, is written as its text was read, with its parameters and its
\* inline comment
C16_PassthroughVerbatim ==
  \A n \in 1..dumped :
    (parsed[n].token \in PassthroughPatterns /\ parsed[n].type # "REMOVE")
      => OutputOf(n) = <<TextOut(n, strip(InputLine(n)))>>

\* the pattern that classifies a text, "" for a text with several codes and
\* for a text no pattern matches
TokenOf(text) ==
  LET t == strip(text)
  IN IF Len(findall_codes(strip(upper(t)), 1)) > 1 \/ FirstMatch(t) = 0 THEN ""
     ELSE tokens[FirstMatch(t)].name

\* the groups a line of pattern tok shows when the line before it showed
\* prev, from the table of the modal groups alone
GroupsAfter(prev, tok) ==
  LET G == {g \in DOMAIN G_MODAL_GROUPS : tok \in G_MODAL_GROUPS[g]}
  IN [g \in DOMAIN prev \cup G |-> IF g \in G THEN tok ELSE prev[g]]

\* the groups in force before the first line: the defaults parse sets
GroupsAtStart == (4 :> "G91.1") @@ (7 :> "G40")

\* C17: the modal snapshot of a line is given by the lines up to it alone:
\* the line just parsed shows what the line before it showed (the defaults
\* for the first line) changed by its own text only, and no step of parsing,
\* hole detection or output changes a snapshot already taken
C17_SnapshotCausality ==
  [][/\ Len(parsed') >= Len(parsed)
     /\ \A k \in 1..Len(parsed) :
          parsed'[k].active_g_modal_groups = parsed[k].active_g_modal_groups
     /\ \A k \in (Len(parsed) + 1)..Len(parsed') :
          parsed'[k].active_g_modal_groups =
            GroupsAfter(IF k = 1 THEN GroupsAtStart
                        ELSE parsed[k - 1].active_g_modal_groups,
                        TokenOf(InputLine(k)))]_vars

\* C17 happens: the run is over for a program whose first line is a rapid
\* and whose third line is an arc; the first line still shows G0, the third G3
C17_Witness ==
  /\ pc = "exit"
  /\ Len(parsed) >= 3
  /\ 1 \in DOMAIN parsed[1].active_g_modal_groups
  /\ parsed[1].active_g_modal_groups[1] = "G0"
  /\ parsed[3].active_g_modal_groups[1] = "G3"

\* the G code words of a text from position p on: G, a number, and a decimal
\* part when there is one
RECURSIVE GCodeWords(_, _)
GCodeWords(s, p) ==
  IF p > Len(s) THEN {}
  ELSE IF s[p] = "G" /\ SpanDigits(s, p + 1) > 0
  THEN LET n == SpanDigits(s, p + 1)
           m == IF p + n + 1 <= Len(s) /\ s[p + n + 1] = "."
                THEN SpanDigits(s, p + n + 2) ELSE 0
           e == p + n + (IF m > 0 THEN 1 + m ELSE 0)
       IN {SubSeq(s, p, e)} \cup GCodeWords(s, e + 1)
  ELSE GCodeWords(s, p + 1)

\* how the codes of the modal groups are written
ModalCodeText ==
  ("G0" :> <<"G","0">>) @@ ("G1" :> <<"G","1">>) @@ ("G2" :> <<"G","2">>)
  @@ ("G3" :> <<"G","3">>) @@ ("G17" :> <<"G","1","7">>)
  @@ ("G90" :> <<"G","9","0">>) @@ ("G91" :> <<"G","9","1">>)
  @@ ("G90.1" :> <<"G","9","0",".","1">>) @@ ("G91.1" :> <<"G","9","1",".","1">>)
  @@ ("G20" :> <<"G","2","0">>) @@ ("G21" :> <<"G","2","1">>)
  @@ ("G40" :> <<"G","4","0">>) @@ ("G41" :> <<"G","4","1">>)
  @@ ("G42" :> <<"G","4","2">>) @@ ("G41.1" :> <<"G","4","1",".","1">>)
  @@ ("G42.1" :> <<"G","4","2",".","1">>)

\* the codes of modal group g that line n of the program carries
CarriedCodes(n, g) ==
  {c \in G_MODAL_GROUPS[g] \cap DOMAIN ModalCodeText :
     ModalCodeText[c] \in GCodeWords(strip(upper(InputLine(n))), 1)}

\* line n of the program is a comment
IsCommentLine(n) ==
  LET t == strip(InputLine(n))
  IN t # <<>> /\ t[1] \in {";", "("}

\* C18: the snapshot of a parsed line shows, for every modal group the line
\* carries a G code of (alone or beside other commands), a code the line
\* carries; every other group is as it was before the line, so that a line
\* with no code of a modal group changes nothing
C18_ModalCodeRecorded ==
  \A n \in 1..Len(parsed) :
    ~IsCommentLine(n) =>
      LET snap == parsed[n].active_g_modal_groups
          before == SnapshotBefore(n)
      IN \A g \in DOMAIN G_MODAL_GROUPS :
           IF CarriedCodes(n, g) # {}
           THEN g \in DOMAIN snap /\ snap[g] \in CarriedCodes(n, g)
           ELSE /\ g \in DOMAIN snap <=> g \in DOMAIN before
                /\ g \in DOMAIN snap => snap[g] = before[g]

\* the pre-arc cursor of line n on one axis with the default for an axis no
\* earlier line set: the arc's own word for the axis, None when it has none
CursorOrOwn(ps, n, axis) ==
  IF MotionLines(ps, n, axis) # {} THEN Cursor(ps, n, axis)
  ELSE IF has_key(ps[n].params, axis) THEN Some(param(ps[n].params, axis))
  ELSE None

\* the implied endpoint of line n on one axis against that cursor
EndpointOrOwn(ps, n, axis) ==
  IF has_key(ps[n].params, axis) THEN Some(param(ps[n].params, axis))
  ELSE CursorOrOwn(ps, n, axis)

\* C19: the turn of the hole detection for a G3 line recovers the cursor of
\* each axis from the nearest earlier line that set the axis under a motion
\* code, and from the arc's own word when there is no such line: the turn
\* completes, and the arc is a closed loop exactly when its endpoint equals
\* that cursor on both axes
C19_CursorRecovery ==
  [][(/\ pc = "flag_holes"
      /\ i < Len(parsed)
      /\ IsG3(parsed[i + 1])
      /\ ~IsNone(CursorOrOwn(parsed, i + 1, "X"))
      /\ ~IsNone(CursorOrOwn(parsed, i + 1, "Y")))
       => /\ pc' # "aborted"
          /\ parsed'[i + 1].is_hole <=>
               /\ EndpointOrOwn(parsed, i + 1, "X") = CursorOrOwn(parsed, i + 1, "X")
               /\ EndpointOrOwn(parsed, i + 1, "Y") = CursorOrOwn(parsed, i + 1, "Y")]_vars

\* the place of the torch-on code of the lead-in in a replacement
TorchOn(es) == CHOOSE k \in 1..Len(es) : es[k].code = "M3 $0"

\* the lead-in a replacement holds, from the moves between the torch-on code
\* and the comment "Hole...": one line is the straight plunge, a line and an
\* arc the single arc, a clockwise arc and an arc the double-back pair of the
\* half-circle lead-in, two counter-clockwise arcs the double-back pair of
\* the combination lead-in
LeadinWritten(es) ==
  LET moves == SubSeq(es, TorchOn(es) + 1, HoleStart(es) - 1)
      codes == [k \in 1..Len(moves) |-> moves[k].code]
  IN IF codes = <<"G1">> THEN "plunge"
     ELSE IF codes = <<"G1", "G3">> THEN "single arc"
     ELSE IF codes = <<"G2", "G3">> THEN "half-circle pair"
     ELSE IF codes = <<"G3", "G3">> THEN "combination pair"
     ELSE "other"

\* the lead-in for a lead-in radius L, a hole radius r and a kerf: the
\* plunge when L < 0 or L >= r, else the single arc when the gap
\* |r - 2L| is below the kerf, else the pair of the half-circle lead-in when
\* L <= r/2 and the pair of the combination lead-in when r/2 < L < r
LeadinChoice(L, r, kerf) ==
  IF L < 0 \/ L >= r THEN "plunge"
  ELSE IF Abs(r - 2 * L) < kerf THEN "single arc"
  ELSE IF 2 * L <= r THEN "half-circle pair"
  ELSE "combination pair"

\* C20: the lead-in of a replacement is the one chosen by comparing the
\* lead-in radius with the hole radius, both as the generator has them after
\* its compensation step (the hole radius is the distance from the centre to
\* the first point of the hole): plunge, half-circle or combination, single
\* arc or double-back pair
C20_LeadinChoice ==
  [][(/\ pc = "hole" /\ pc' = "flag_holes"
      /\ geom'.branch \in {"standard", "hidef"}
      /\ HoleStart(Val(parsed'[i + 1].hole_builder)) # 0)
       => LET line == parsed'[i + 1]
              es == Val(line.hole_builder)
              kerf == KerfGiven(geom)'
              off == IF line.active_g_modal_groups[7] = "G40" THEN 0 ELSE kerf \div 2
              L == LeadinGiven(geom)' - off
              r == es[HoleStart(es) - 1].y.v - geom'.centre_y
          IN LeadinWritten(es) = LeadinChoice(L, r, kerf)]_vars

\* the comment the generator leaves for a hole it skips
SkippedComment == "(1/2 Kerf > Hole Radius.  Smart Hole processing skipped.)"

\* C21: when half the kerf is greater than or equal to the hole radius, the
\* equal case included, the replacement of the hole is the explanatory
\* comment alone: no motion, torch, feed or THC element
C21_DegenerateGuard ==
  [][(/\ pc = "hole" /\ pc' = "flag_holes"
      /\ geom'.branch \in {"standard", "hidef"}
      /\ KerfGiven(geom)' \div 2 >= geom'.diameter \div 2)
       => LET es == Val(parsed'[i + 1].hole_builder)
          IN Len(es) = 1 /\ es[1].code = SkippedComment]_vars

\* the place of a pattern's family in the order of the families: moves,
\* arcs, units, cutter compensation, path blending, adaptive feed, spindle,
\* material change, digital input wait, arc mode, symbolic feed, literal
\* feed, hole directives, comments, tool address
FamilyRank(type) ==
  CASE type = "MOVE_LINEAR" -> 1
    [] type = "MOVE_ARC" -> 2
    [] type = "UNITS" -> 3
    [] type \in {"CUTTER_COMP_LEFT", "CUTTER_COMP_RIGHT", "CUTTER_COMP_OFF"} -> 4
    [] type = "PATH_BLENDING" -> 5
    [] type = "ADAPTIVE_FEED" -> 6
    [] type \in {"SPINDLE_ON", "SPINDLE_OFF"} -> 7
    [] type = "MATERIAL_CHANGE" -> 8
    [] type = "DIGITAL_IN" -> 9
    [] type \in {"ARC_RELATIVE", "ARC_ABSOLUTE"} -> 10
    [] type = "FEEDRATE_MATERIAL" -> 11
    [] type = "FEEDRATE_LINE" -> 12
    [] type \in {"HOLE_MODE", "HOLE_DIAM", "HOLE_VEL", "HOLE_OVERCUT", "PIERCE_MODE"} -> 13
    [] type = "COMMENT" -> 14
    [] type = "TOOLCHANGE" -> 15

\* the patterns that match a text
MatchingPatterns(text) ==
  {n \in 1..Len(tokens) : re_search_prefix(tokens[n].k, upper(text))}

\* the place in the table of the pattern of a name
PatternOf(name) == CHOOSE n \in 1..Len(tokens) : tokens[n].name = name

\* C22: the pattern that classifies a line with one command is a first match
\* in the order of the families: no pattern of an earlier family matches the
\* line
C22_ClassifierOrder ==
  [][(pc = "parse" /\ Len(parsed') = Len(parsed) + 1)
       => LET n == Len(parsed')
              text == strip(InputLine(n))
          IN (Len(findall_codes(strip(upper(text)), 1)) <= 1 /\ parsed'[n].token # "")
               => \A m \in MatchingPatterns(text) :
                    FamilyRank(tokens[PatternOf(parsed'[n].token)].type)
                      <= FamilyRank(tokens[m].type)]_vars

\* the text holds several commands (G number, M number, tool address) and
\* none of them is a cutter compensation code
MultiCommand(text) ==
  LET codes == findall_codes(strip(upper(text)), 1)
  IN /\ Len(codes) > 1
     /\ \A k \in 1..Len(codes) :
          codes[k] \notin {<<"G","4","0">>, <<"G","4","1">>, <<"G","4","2">>}

\* the text is a tool address followed by the tool change M6
IsToolCombo(text) ==
  LET t == strip(text)
  IN IsToolLine(t) /\ startswith(strip(Drop(t, 1 + LeadingDigits(t))), <<"M", "6">>)

\* the tool address of a tool line, as a line of its own
ToolAddress(text) == SubSeq(strip(text), 1, 1 + LeadingDigits(strip(text)))

\* C23: a line with several commands and no cutter compensation code is
\* classified PASSTHROUGH; unless the hole detection marked it for removal it
\* is written as its text (after the error comment when it is a Tx M6 line
\* with an id the database does not have); and parsing a Tx M6 line with a
\* valid id leaves the active process context that parsing the line Tx alone
\* would have left
C23_MultiCommandLine ==
  /\ [][(line_num' = line_num + 1 /\ MultiCommand(InputLine(line_num + 1)))
          => /\ Len(parsed') = line_num + 1
             /\ parsed'[line_num + 1].type = "PASSTHROUGH"
             /\ (IsToolCombo(InputLine(line_num + 1))
                 /\ ToolLineId(strip(InputLine(line_num + 1))) \in DOMAIN CutChart)
                  => ActiveProcess' =
                       CodeLine(ToolAddress(InputLine(line_num + 1)),
                                ActiveProcess, UNITS_PER_MM).act]_vars
  /\ [][\A n \in (dumped + 1)..dumped' :
          (MultiCommand(InputLine(n)) /\ parsed[n].type # "REMOVE")
            => LET t == strip(InputLine(n))
               IN OutputOf(n)' =
                    <<TextOut(n, IF IsToolCombo(t) /\ ToolLineId(t) \notin DOMAIN CutChart
                                 THEN InvalidCutchartText \o t ELSE t)>>]_vars

\* C23 happens: T1 M6 was parsed after T2 M6 and written as it was read, and
\* the active process is the one of id 1
C23_Witness ==
  /\ dumped >= 2
  /\ InputLine(1) = Text.T2M6
  /\ InputLine(2) = Text.T1M6
  /\ parsed[2].type = "PASSTHROUGH"
  /\ OutputOf(2) = <<TextOut(2, Text.T1M6)>>
  /\ ActiveProcess = RecordOf(1)

\* what a replacement writes after the comment "Hole...": the body of the
\* hole and the closeout, less the debug comments that are not written
AfterHoleStart(es) ==
  SelectSeq(SubSeq(es, HoleStart(es) + 1, Len(es)), LAMBDA e : e.code # "None")

\* the codes of a sequence of elements
CodesOf(es) == [k \in 1..Len(es) |-> es[k].code]

\* the body of three segments and the closeout: per segment its comment, its
\* feed and one counter-clockwise arc, the torch-off before the third feed;
\* then THC-on and the programmed feed, and the arc mode when it was switched
ThreeSegmentCodes(switched) ==
  <<"(Sector number: 0)", "F", "G3",
    "(Sector number: 1)", "F", "G3",
    "(Sector number: 2)", "M5 $-1", "F", "G3",
    "M63 P2", "F">>
  \o (IF switched THEN <<"G91.1">> ELSE <<>>)

\* C24: the replacement of a hole cut in three segments holds, after the
\* comment "Hole...", one counter-clockwise arc about the centre per segment:
\* the first after the first arc feed, the second after the second arc feed,
\* the third after a torch-off and the third arc feed; then, the torch being
\* off, THC-on, the programmed feed rate, and the relative arc mode exactly
\* when the replacement began by switching to the absolute one
C24_SegmentsAndCloseout ==
  [][(/\ pc = "hole" /\ pc' = "flag_holes"
      /\ geom'.branch \in {"standard", "hidef"}
      /\ HoleStart(Val(parsed'[i + 1].hole_builder)) # 0)
       => LET line == parsed'[i + 1]
              es == Val(line.hole_builder)
              tl == AfterHoleStart(es)
              fr == Val(active_feedrate)
          IN /\ CodesOf(tl) = ThreeSegmentCodes(es[1].code = "G90.1")
             /\ es[1].code = "G90.1" <=> line.active_g_modal_groups[4] = "G91.1"
             /\ tl[2].r = Some((fr * fh.percent.arc1) \div 100)
             /\ tl[5].r = Some((fr * fh.percent.arc2) \div 100)
             /\ tl[9].r = Some((fr * fh.percent.arc3) \div 100)
             /\ tl[12].r = Some(fr)
             /\ \A k \in {3, 6, 10} :
                  tl[k].i.v = geom'.centre_x /\ tl[k].j.v = geom'.centre_y]_vars

\* C24 happens: a hole has been replaced in absolute arc mode, so that its
\* closeout has no arc mode to restore, and its third segment is written
C24_Witness ==
  /\ pc = "flag_holes"
  /\ i > 0
  /\ parsed[i].is_hole
  /\ geom.branch = "standard"
  /\ parsed[i].active_g_modal_groups[4] = "G90.1"
  /\ ~IsNone(parsed[i].hole_builder)
  /\ HoleStart(Val(parsed[i].hole_builder)) # 0
  /\ CodesOf(AfterHoleStart(Val(parsed[i].hole_builder))) = ThreeSegmentCodes(FALSE)

\* the unit scale of the machine configuration, from the precision it fixed
ConfiguredUnits == IF PRECISION = 4 THEN MmUnits ELSE InchUnits

\* C25: no step changes the output precision or the unit scale, a step that
\* parses a G20 or G21 line included, and the hole detection converts the
\* configured distances with the scale of the machine configuration
C25_UnitsFixed ==
  [][/\ PRECISION' = PRECISION
     /\ UNITS_PER_MM' = UNITS_PER_MM
     /\ (pc = "parse" /\ pc' = "flag_holes")
          => \E hal \in HalConfigs : fh' = flag_holes_locals(hal, ConfiguredUnits)]_vars

\* what the elements of a replacement are written as for line n: one output
\* per element that has a code, in the order of the elements
WrittenElements(n, es) ==
  LET shown == SelectSeq(es, LAMBDA e : e.code # "None")
  IN [k \in 1..Len(shown) |-> ElementOut(n, shown[k], PRECISION)]

\* C26: output is written by the serializer alone, a line at a time in the
\* order of the program and after everything written before; a line with a
\* replacement gives the begin marker, the elements of the replacement and
\* the end marker (and an empty line), a line marked for removal nothing,
\* every other line one text; and no step of the serializer changes a line
C26_SerializerPass ==
  [][/\ pc # "dump" => stdout' = stdout /\ dumped' = dumped
     /\ pc = "dump" =>
          /\ parsed' = parsed
          /\ dumped' = dumped \/ dumped' = dumped + 1
          /\ dumped' = dumped => stdout' = stdout
          /\ dumped' = dumped + 1 =>
               LET n == dumped + 1
                   l == parsed[n]
                   new == SubSeq(stdout', Len(stdout) + 1, Len(stdout'))
               IN /\ Len(stdout') >= Len(stdout)
                  /\ SubSeq(stdout', 1, Len(stdout)) = stdout
                  /\ \A k \in 1..Len(new) : new[k].src = n
                  /\ IF ~IsNone(l.hole_builder)
                     THEN new = <<TextOut(n, SmartHoleStart)>>
                                \o WrittenElements(n, Val(l.hole_builder))
                                \o <<TextOut(n, SmartHoleEnd), TextOut(n, <<>>)>>
                     ELSE IF l.type = "REMOVE" THEN new = <<>>
                     ELSE Len(new) = 1 /\ new[1].kind = "text"]_vars

\* C26 happens: the run is over for a program with a removed line, then a
\* replaced hole, then a line written as one text
C26_Witness ==
  /\ pc = "exit"
  /\ \E k, n, m \in 1..Len(parsed) :
       /\ k < n /\ n < m
       /\ parsed[k].type = "REMOVE" /\ IsNone(parsed[k].hole_builder) /\ OutputOf(k) = <<>>
       /\ ~IsNone(parsed[n].hole_builder) /\ Len(OutputOf(n)) > 3
       /\ parsed[m].type # "REMOVE" /\ Len(OutputOf(m)) = 1

\* the places of a code in a sequence of elements
PlacesOf(es, code) == {k \in 1..Len(es) : es[k].code = code}

\* C27: a replacement built by the hole generator that holds motion (it has
\* the comment "Hole...") holds one torch-on and one torch-off, the torch-on
\* before the torch-off, a THC-off before the torch-on and a THC-on after the
\* torch-off; so it does not end with the torch on
C27_TorchDiscipline ==
  \A n \in 1..Len(parsed) :
    (~IsNone(parsed[n].hole_builder) /\ HoleStart(Val(parsed[n].hole_builder)) # 0)
      => LET es == Val(parsed[n].hole_builder)
             on == PlacesOf(es, "M3 $0")
             off == PlacesOf(es, "M5 $-1")
         IN /\ Cardinality(on) = 1
            /\ Cardinality(off) = 1
            /\ \A a \in on, b \in off :
                 /\ a < b
                 /\ \E t \in PlacesOf(es, "M62 P2") : t < a
                 /\ \E t \in PlacesOf(es, "M63 P2") : b < t

\* C27 happens: a hole was built with no segment breakpoint, as four arcs
\* after a double-back lead-in, and the closeout turned the torch off
C27_Witness ==
  /\ pc = "builder"
  /\ ~IsNone(parsed[1].hole_builder)
  /\ LET es == Val(parsed[1].hole_builder)
     IN /\ HoleStart(es) # 0
        /\ PlacesOf(es, "(Sector number: 0)") = {}
        /\ LeadinWritten(es) = "combination pair"
        /\ \E b \in PlacesOf(es, "M5 $-1") : es[b - 1].code = "G3"

\* the text is a tool line, alone or with M6, with an id the database does
\* not have
UnknownIdToolLine(text) ==
  LET t == strip(text)
  IN IsToolLine(t) /\ ToolLineId(t) \notin DOMAIN CutChart

\* the tool lines before line n, and whether the nearest of them has an id
\* the database does not have
ToolLinesBefore(n) == {j \in 1..(n - 1) : IsToolLine(strip(InputLine(j)))}
AfterUnknownTool(n) ==
  ToolLinesBefore(n) # {} /\ UnknownIdToolLine(InputLine(Last(ToolLinesBefore(n))))

\* the feed rate a replacement ends with: the r of its last F element
ProgrammedFeed(es) ==
  LET F == {k \in 1..Len(es) : es[k].code = "F"}
  IN IF F = {} THEN None ELSE es[Last(F)].r

\* C28: parsing a tool line whose id the database does not have, alone or
\* with M6, leaves the six fields of the active process context as they
\* were, a process or none; a literal feed line whose nearest tool line is
\* such a line is written with the feed rate of the process selected before
\* it (with its own number when none was); and a hole replaced in a program
\* whose last tool line is such a line ends with the feed rate of the
\* process selected before it
C28_UnknownToolKeepsProcess ==
  /\ [][(line_num' = line_num + 1 /\ UnknownIdToolLine(InputLine(line_num + 1)))
          => /\ Len(parsed') = line_num + 1
             /\ IsNone(parsed'[line_num + 1].cutchart_id)
             /\ ActiveProcess' = ActiveProcess]_vars
  /\ \A n \in 1..dumped :
       (IsLiteralFeed(strip(InputLine(n))) /\ AfterUnknownTool(n))
         => FeedWritten(OutputOf(n)) =
              IF IsNone(ActiveFeedAt(n)) THEN float_of(Drop(strip(InputLine(n)), 1))
              ELSE ActiveFeedAt(n)
  /\ \A n \in 1..Len(parsed) :
       (/\ ~IsNone(parsed[n].hole_builder)
        /\ HoleStart(Val(parsed[n].hole_builder)) # 0
        /\ AfterUnknownTool(Len(orig_gcode) + 1))
         => ProgrammedFeed(Val(parsed[n].hole_builder))
              = ActiveFeedAt(Len(orig_gcode) + 1)

\* C28 happens: T1, then T9 and T9 M6, then F100: the run has written the
\* feed line with the cut speed of process 1, which is still the active one
C28_Witness ==
  /\ dumped = 4
  /\ InputLine(1) = Text.T1
  /\ InputLine(2) = Text.T9
  /\ InputLine(3) = Text.T9M6
  /\ InputLine(4) = Text.F100
  /\ ActiveProcess = RecordOf(1)
  /\ FeedWritten(OutputOf(4)) = Some(CutChart[1].cut_speed)

\* the run went from the parse to the serializer without flag_holes: the
\* locals of flag_holes were never assigned
HoleDetectionOff == pc \in {"dump", "exit"} /\ fh = NoLocals

====
